---- MODULE Spec2Model ----
(***************************************************************************)
(* Programmatic tool-calling runtime: the sandbox controller and its file  *)
(* RPC with the worker, the MCP bridge with its circuit breaker, the       *)
(* context filter and the savings accountant.                              *)
(*                                                                         *)
(* Operators that use an argument more than once bind it first, as in      *)
(*   Op(a) == The({ body(x) : x \in {a} })                                 *)
(* so that every argument is evaluated once per call.                      *)
(***************************************************************************)
EXTENDS Integers, Sequences, FiniteSets, TLC

The(S) == CHOOSE r \in S : TRUE

(***************************************************************************)
(* JavaScript values.  A value is a record tagged by k; an object keeps    *)
(* its properties as a sequence of (key, val) pairs in insertion order.    *)
(***************************************************************************)
Undef == [k |-> "undef"]
Null == [k |-> "null"]
Str(s) == [k |-> "str", s |-> s]
Num(n) == [k |-> "num", n |-> n]
Bool(b) == [k |-> "bool", b |-> b]
NaN == [k |-> "nan"]
Arr(a) == [k |-> "arr", a |-> a]
Obj(o) == [k |-> "obj", o |-> o]
Prop(key, val) == [key |-> key, val |-> val]

IsArray(v) == v.k = "arr"

\* typeof v
TypeOf(v) ==
  The({ CASE x.k = "undef" -> "undefined"
          [] x.k = "str" -> "string"
          [] x.k \in {"num", "nan"} -> "number"
          [] x.k = "bool" -> "boolean"
          [] OTHER -> "object" : x \in {v} })

\* !!v
Truthy(v) ==
  The({ CASE x.k \in {"undef", "null", "nan"} -> FALSE
          [] x.k = "str" -> x.s # ""
          [] x.k = "num" -> x.n # 0
          [] x.k = "bool" -> x.b
          [] OTHER -> TRUE : x \in {v} })

\* key in obj
HasKey(obj, key) == \E x \in {obj} : \E i \in 1..Len(x.o) : x.o[i].key = key

\* obj[key]: undefined when the value is no object or has no such property
Get(v, key) ==
  The({ IF x.k = "obj" /\ HasKey(x, key)
        THEN (CHOOSE p \in {x.o[i] : i \in 1..Len(x.o)} : p.key = key).val
        ELSE Undef : x \in {v} })

\* obj[key] = val keeps the position of an existing key, else appends
Put(obj, key, val) ==
  The({ IF HasKey(x, key)
        THEN Obj([i \in 1..Len(x.o) |-> IF x.o[i].key = key THEN Prop(key, y) ELSE x.o[i]])
        ELSE Obj(Append(x.o, Prop(key, y))) : x \in {obj}, y \in {val} })

\* Object.assign(obj, src) for the properties of src in order
RECURSIVE PutAll(_, _)
PutAll(obj, props) ==
  The({ IF Len(ps) = 0 THEN x
        ELSE PutAll(Put(x, Head(ps).key, Head(ps).val), Tail(ps)) : x \in {obj}, ps \in {props} })

\* parts.join(sep)
RECURSIVE JoinStrings(_, _)
JoinStrings(parts, sep) ==
  The({ IF Len(ps) = 0 THEN ""
        ELSE IF Len(ps) = 1 THEN ps[1]
        ELSE ps[1] \o sep \o JoinStrings(Tail(ps), sep) : ps \in {parts} })

\* the properties JSON.stringify writes
SelectProps(props) == SelectSeq(props, LAMBDA p : p.val.k # "undef")

\* JSON.stringify on values without characters that need escaping
RECURSIVE JSONStringify(_)
JSONStringify(v) ==
  The({ CASE x.k \in {"null", "nan", "undef"} -> "null"
          [] x.k = "str" -> "\"" \o x.s \o "\""
          [] x.k = "num" -> ToString(x.n)
          [] x.k = "bool" -> IF x.b THEN "true" ELSE "false"
          [] x.k = "arr" ->
               "[" \o JoinStrings([i \in 1..Len(x.a) |-> JSONStringify(x.a[i])], ",") \o "]"
          [] x.k = "obj" ->
               The({ "{" \o JoinStrings([i \in 1..Len(ps) |->
                        "\"" \o ps[i].key \o "\":" \o JSONStringify(ps[i].val)], ",") \o "}"
                     : ps \in {SelectProps(x.o)} })
        : x \in {v} })

\* JSON.parse(JSON.stringify(v)): undefined properties vanish, NaN and
\* undefined array items become null
RECURSIVE JSONClone(_)
JSONClone(v) ==
  The({ CASE x.k \in {"nan", "undef"} -> Null
          [] x.k = "arr" -> Arr([i \in 1..Len(x.a) |-> JSONClone(x.a[i])])
          [] x.k = "obj" ->
               The({ Obj([i \in 1..Len(ps) |-> Prop(ps[i].key, JSONClone(ps[i].val))])
                     : ps \in {SelectProps(x.o)} })
          [] OTHER -> x
        : x \in {v} })

\* Math.ceil(n / 4)
CeilDiv4(n) == (n + 3) \div 4

\* the token estimate of a value: Math.ceil(JSON.stringify(v).length / 4)
TokensOf(v) == CeilDiv4(Len(JSONStringify(v)))

\* a || b
OrElse(a, b) == The({ IF Truthy(x) THEN x ELSE b : x \in {a} })

\* String(value)
RECURSIVE JSString(_)
JSString(v) ==
  The({ CASE x.k = "str" -> x.s
          [] x.k = "num" -> ToString(x.n)
          [] x.k = "bool" -> IF x.b THEN "true" ELSE "false"
          [] x.k = "null" -> "null"
          [] x.k = "undef" -> "undefined"
          [] x.k = "nan" -> "NaN"
          [] x.k = "arr" ->
               JoinStrings([i \in 1..Len(x.a) |->
                  IF x.a[i].k \in {"null", "undef"} THEN "" ELSE JSString(x.a[i])], ",")
          [] OTHER -> "[object Object]"
        : x \in {v} })

\* Number(s) for the strings of the model
NumberOfString(s) ==
  The({ CASE x \in {"", "0"} -> Num(0)
          [] x = "1" -> Num(1)
          [] x = "5" -> Num(5)
          [] OTHER -> NaN : x \in {s} })

\* Number(value)
JSNumber(v) ==
  The({ CASE x.k \in {"num", "nan"} -> x
          [] x.k = "str" -> NumberOfString(x.s)
          [] x.k = "bool" -> IF x.b THEN Num(1) ELSE Num(0)
          [] x.k = "null" -> Num(0)
          [] x.k = "arr" -> NumberOfString(JSString(x))
          [] OTHER -> NaN : x \in {v} })

(***************************************************************************)
(* Tool names of the model and the string tests the code applies to them.  *)
(***************************************************************************)
LocalToolNames == {"getUser"}
McpToolNames == {"mcp_flaky", "mcp_firecrawl_scrape"}

\* name.startsWith('mcp_')
StartsWithMcp(name) ==
  name \in {"mcp_flaky", "mcp_firecrawl_scrape", "mcp_search", "mcp_extract"}

\* toolName.includes(sub)
Includes(name, sub) ==
  <<name, sub>> \in {<<"mcp_firecrawl_scrape", "scrape">>, <<"mcp_firecrawl_scrape", "crawl">>,
                     <<"mcp_search", "search">>, <<"mcp_extract", "extract">>}

(***************************************************************************)
(* Parameter normalizer.  A schema lists its properties in declaration     *)
(* order, each with a type and, for arrays, an item schema.                *)
(***************************************************************************)
NoSchema == [has |-> FALSE]
NoItems == [has |-> FALSE]
ItemSchema(type, properties, required) ==
  [has |-> TRUE, type |-> type, properties |-> properties, required |-> required]
PropSchema(key, type, items) == [key |-> key, type |-> type, items |-> items]
Schema(properties, required) == [has |-> TRUE, properties |-> properties, required |-> required]

Normalization(normalized, warnings) == [normalized |-> normalized, warnings |-> warnings]

\* the key that wraps a scalar item of a declared array of objects
TargetProp(itemSchema) ==
  The({ The({ IF \E i \in 1..Len(sp) : sp[i].key \in s.required
              THEN sp[CHOOSE i \in 1..Len(sp) :
                        /\ sp[i].key \in s.required
                        /\ \A j \in 1..(i - 1) : sp[j].key \notin s.required].key
              ELSE IF \E i \in 1..Len(sp) : sp[i].key = "type" THEN "type"
              ELSE IF \E i \in 1..Len(sp) : sp[i].key = "value" THEN "value"
              ELSE IF \E i \in 1..Len(sp) : sp[i].key = "url" THEN "url"
              ELSE IF \E i \in 1..Len(sp) : sp[i].key = "name" THEN "name"
              ELSE IF Len(sp) > 0 THEN sp[1].key
              ELSE IF Len(s.properties) > 0 THEN s.properties[1].key
              ELSE "value"
              : sp \in {SelectSeq(s.properties, LAMBDA p : p.type = "string")} })
        : s \in {itemSchema} })

\* items.map(item => typeof item === 'object' ? item : { [targetProp]: item })
WrapItems(items, itemSchema) ==
  The({ [i \in 1..Len(xs) |->
           IF TypeOf(xs[i]) = "object" THEN xs[i] ELSE Obj(<<Prop(t, xs[i])>>)]
        : xs \in {items}, t \in {TargetProp(itemSchema)} })

\* the warning for a missing required field, added before any coercion
CheckRequired(st, key, required) ==
  The({ IF key \in required /\ Get(s.normalized, key).k = "undef"
        THEN Normalization(s.normalized, Append(s.warnings, "Missing required field: " \o key))
        ELSE s : s \in {st} })

\* the coercion of a present value to the declared type
CoerceType(st, prop) ==
  The({ CASE value.k = "undef" -> s
          [] value.k # "undef" /\ prop.type = "array" /\ ~IsArray(value) ->
               Normalization(Put(s.normalized, prop.key, Arr(<<value>>)),
                             Append(s.warnings, "Coerced " \o prop.key \o " to array"))
          [] value.k # "undef" /\ prop.type = "string" /\ TypeOf(value) # "string" ->
               Normalization(Put(s.normalized, prop.key, Str(JSString(value))),
                             Append(s.warnings, "Coerced " \o prop.key \o " to string"))
          [] value.k # "undef" /\ prop.type = "number" /\ TypeOf(value) # "number" ->
               The({ IF num.k # "nan"
                     THEN Normalization(Put(s.normalized, prop.key, num),
                                        Append(s.warnings, "Coerced " \o prop.key \o " to number"))
                     ELSE s : num \in {JSNumber(value)} })
          [] value.k # "undef" /\ prop.type = "boolean" /\ TypeOf(value) # "boolean" ->
               Normalization(Put(s.normalized, prop.key, Bool(Truthy(value))),
                             Append(s.warnings, "Coerced " \o prop.key \o " to boolean"))
          [] value.k # "undef" /\ prop.type = "object" /\ TypeOf(value) # "object" ->
               Normalization(s.normalized,
                             Append(s.warnings, "Expected object for " \o prop.key
                                                \o ", got " \o TypeOf(value)))
          [] OTHER -> s
        : s \in {st}, value \in {Get(st.normalized, prop.key)} })

\* the wrapping of the scalar items of a declared array of objects; before is
\* the value the property had when the loop round began
CoerceItems(st, prop, before) ==
  The({ IF /\ before.k # "undef" /\ prop.type = "array" /\ IsArray(cur) /\ prop.items.has
           /\ prop.items.type = "object" /\ Len(cur.a) > 0 /\ TypeOf(cur.a[1]) # "object"
        THEN Normalization(Put(s.normalized, prop.key, Arr(WrapItems(cur.a, prop.items))),
                           Append(s.warnings, "Wrapped " \o prop.key \o " items as objects using schema"))
        ELSE s
        : s \in {st}, cur \in {Get(st.normalized, prop.key)} })

\* one round of the loop over schema.properties
CoerceProperty(st, prop, required) ==
  The({ CoerceItems(CoerceType(CheckRequired(s, prop.key, required), prop), prop,
                    Get(s.normalized, prop.key))
        : s \in {st} })

RECURSIVE CoerceAll(_, _, _)
CoerceAll(st, props, required) ==
  The({ IF Len(ps) = 0 THEN s
        ELSE CoerceAll(CoerceProperty(s, Head(ps), required), Tail(ps), required)
        : s \in {st}, ps \in {props} })

\* the wrapping of a non-record argument (args is not null/undefined here)
WrapPrimitive(toolName, args) ==
  The({ IF TypeOf(a) = "object" /\ ~IsArray(a) THEN Normalization(a, <<>>)
        ELSE IF TypeOf(a) = "string"
        THEN IF Includes(toolName, "scrape") \/ Includes(toolName, "crawl")
             THEN Normalization(Obj(<<Prop("url", a)>>),
                                <<"Wrapped string as { url: \"" \o a.s \o "\" }">>)
             ELSE IF Includes(toolName, "search")
             THEN Normalization(Obj(<<Prop("query", a)>>),
                                <<"Wrapped string as { query: \"" \o a.s \o "\" }">>)
             ELSE IF Includes(toolName, "extract")
             THEN Normalization(Obj(<<Prop("urls", Arr(<<a>>))>>),
                                <<"Wrapped string as { urls: [\"" \o a.s \o "\"] }">>)
             ELSE Normalization(Obj(<<Prop("input", a)>>),
                                <<"Wrapped primitive as { input: ... }">>)
        ELSE IF IsArray(a)
        THEN IF Includes(toolName, "extract") \/ Includes(toolName, "batch")
             THEN Normalization(Obj(<<Prop("urls", a)>>), <<"Wrapped array as { urls: [...] }">>)
             ELSE Normalization(Obj(<<Prop("items", a)>>), <<"Wrapped array as { items: [...] }">>)
        ELSE Normalization(a, <<>>)
        : a \in {args} })

\* w.includes('Missing required')
IsMissingRequired(w) ==
  \E key \in {"url", "x", "id", "query", "urls"} : w = "Missing required field: " \o key

\* a wrapping that is applied to every argument, records too
WrapAlways(toolName, args) ==
  Normalization(Obj(<<Prop("input", args)>>), <<"Wrapped primitive as { input: ... }">>)

\* the arguments after the null check and the wrapping
WrapArgs(toolName, args) ==
  The({ IF a.k \in {"null", "undef"}
        THEN Normalization(Obj(<<>>), <<"Args was null/undefined, using empty object">>)
        ELSE WrapPrimitive(toolName, a) : a \in {args} })

\* JSON.parse(JSON.stringify(normalized))
CloneArgs(st) == The({ Normalization(JSONClone(s.normalized), s.warnings) : s \in {st} })

NormalizeParameters(toolName, args, schema) ==
  The({ [normalized |-> done.normalized,
         warnings |-> done.warnings,
         isValid |-> \A i \in 1..Len(done.warnings) : ~IsMissingRequired(done.warnings[i])]
        : done \in {IF schema.has
                    THEN CoerceAll(CloneArgs(WrapArgs(toolName, args)),
                                   schema.properties, schema.required)
                    ELSE CloneArgs(WrapArgs(toolName, args))} })

(***************************************************************************)
(* Response normalizer.                                                    *)
(***************************************************************************)
\* the documents JSON.parse can read back in the model
JSONDomain ==
  {Obj(<<Prop("markdown", Str("hi"))>>),
   Obj(<<Prop("success", Bool(FALSE)), Prop("error", Str("bad"))>>),
   Arr(<<Num(1)>>), Num(5), Str("t"), Null}

\* JSON.parse(text): ok = FALSE stands for the SyntaxError
JSONParse(text) ==
  The({ IF t.k = "str" /\ \E v \in JSONDomain : JSONStringify(v) = t.s
        THEN [ok |-> TRUE, v |-> CHOOSE v \in JSONDomain : JSONStringify(v) = t.s]
        ELSE [ok |-> FALSE, v |-> Undef] : t \in {text} })

\* the container the aliases are taken from
MainData(data) ==
  The({ IF Get(d, "data").k # "undef" THEN Get(d, "data")
        ELSE IF Get(d, "result").k # "undef" THEN Get(d, "result")
        ELSE IF Get(d, "results").k # "undef" THEN Get(d, "results")
        ELSE IF Get(d, "content").k # "undef" /\ ~Truthy(Get(d, "markdown"))
        THEN Get(d, "content")
        ELSE d : d \in {data} })

\* textContent when the container branches have run
TextContent(data, mainData) ==
  The({ IF m.k = "str" THEN m
        ELSE IF Get(d, "text").k = "str" THEN Get(d, "text")
        ELSE IF Get(d, "stdout").k # "undef" THEN Get(d, "stdout")
        ELSE IF Get(d, "output").k # "undef" THEN Str(JSString(Get(d, "output")))
        ELSE Str("") : d \in {data}, m \in {mainData} })

\* items, data, length, first, last (and value) by the kind of container
WithContainer(result, mainData) ==
  The({ IF IsArray(m)
        THEN PutAll(r, <<Prop("items", m), Prop("data", m), Prop("length", Num(Len(m.a))),
                         Prop("first", IF Len(m.a) > 0 THEN OrElse(m.a[1], Null) ELSE Null),
                         Prop("last", IF Len(m.a) > 0 THEN OrElse(m.a[Len(m.a)], Null)
                                      ELSE Null)>>)
        ELSE IF m.k = "obj"
        THEN PutAll(r, <<Prop("items", Arr(<<m>>)), Prop("data", m), Prop("length", Num(1)),
                         Prop("first", m), Prop("last", m)>> \o m.o)
        ELSE PutAll(r, <<Prop("items", Arr(<<m>>)), Prop("data", m), Prop("value", m),
                         Prop("length", Num(1))>>)
        : r \in {result}, m \in {mainData} })

\* result[key] = textContent || result[key] || fallback
WithAlias(result, key, textContent, fallback) ==
  The({ Put(r, key, OrElse(t, OrElse(Get(r, key), fallback)))
        : r \in {result}, t \in {textContent} })

\* the five aliases, in the order the code assigns them
WithAliases(result, textContent) ==
  The({ The({ The({ Put(r5, "value", OrElse(Get(r5, "value"), OrElse(t, Get(r5, "data"))))
                    : r5 \in {WithAlias(r3, "content", t, Get(r3, "data"))} })
              : r3 \in {WithAlias(WithAlias(WithAlias(r, "text", t, Str("")),
                                            "output", t, Str("")), "stdout", t, Str(""))} })
        : r \in {result}, t \in {textContent} })

\* error, stderr and success = false when the input carries an error
WithError(result, data) ==
  The({ IF Truthy(e)
        THEN PutAll(result, <<Prop("error", e), Prop("stderr", e), Prop("success", Bool(FALSE))>>)
        ELSE result : e \in {Get(data, "error")} })

NormalizeResponseStructure(data) ==
  The({ IF d.k \in {"null", "undef"}
        THEN Obj(<<Prop("success", Bool(FALSE)), Prop("data", Null), Prop("items", Arr(<<>>)),
                   Prop("output", Str("")), Prop("text", Str("")),
                   Prop("error", Str("No data returned"))>>)
        ELSE IF Truthy(Get(d, "_normalized")) THEN d
        ELSE The({ WithError(
                     WithAliases(
                       WithContainer(
                         Obj(<<Prop("success", Bool(/\ Get(d, "success") # Bool(FALSE)
                                                    /\ ~Truthy(Get(d, "error"))
                                                    /\ ~Truthy(Get(d, "isError")))),
                               Prop("_normalized", Bool(TRUE)), Prop("_raw", d)>>), m),
                       TextContent(d, m)), d)
                   : m \in {MainData(d)} })
        : d \in {data} })

\* content.filter(c => c.type === 'text')
TextParts(content) == SelectSeq(content.a, LAMBDA c : Get(c, "type") = Str("text"))

\* the text parts joined by newlines
JoinTexts(texts) ==
  The({ Str(JoinStrings([i \in 1..Len(ts) |->
               IF Get(ts[i], "text").k \in {"null", "undef"} THEN ""
               ELSE JSString(Get(ts[i], "text"))], "\n")) : ts \in {texts} })

\* JSON.parse(text) or, when that throws, the text
ParsedOrText(text) ==
  The({ IF p.ok THEN p.v ELSE text : p \in {JSONParse(text)} })

\* {...arr}: the items under their indices
SpreadArray(items) == The({ [i \in 1..Len(xs) |-> Prop(ToString(i - 1), xs[i])] : xs \in {items} })

\* the branch for a response in MCP protocol form
TransformEnvelope(rawResponse) ==
  The({ IF Truthy(Get(raw, "isError"))
        THEN Obj(<<Prop("success", Bool(FALSE)),
                   Prop("error", OrElse(JoinTexts(texts), Str("MCP tool returned an error"))),
                   Prop("_raw", raw)>>)
        ELSE IF Len(texts) = 0
        THEN Obj(<<Prop("success", Bool(TRUE)), Prop("content", Get(raw, "content")),
                   Prop("_raw", raw)>>)
        ELSE IF Len(texts) = 1
        THEN The({ IF p.ok
                   THEN IF p.v.k = "obj" /\ ~HasKey(p.v, "success")
                        THEN Put(p.v, "success", Bool(TRUE))
                        ELSE p.v
                   ELSE Obj(<<Prop("success", Bool(TRUE)), Prop("text", Get(texts[1], "text")),
                              Prop("_raw", raw)>>)
                   : p \in {JSONParse(Get(texts[1], "text"))} })
        ELSE Obj(<<Prop("success", Bool(TRUE)),
                   Prop("results", Arr([i \in 1..Len(texts) |->
                                          ParsedOrText(Get(texts[i], "text"))])),
                   Prop("_raw", raw)>>)
        : raw \in {rawResponse}, texts \in {TextParts(Get(rawResponse, "content"))} })

TransformMCPResponse(rawResponse) ==
  The({ IF ~Truthy(raw) THEN raw
        ELSE IF Truthy(Get(raw, "content")) /\ IsArray(Get(raw, "content"))
        THEN TransformEnvelope(raw)
        ELSE IF raw.k = "obj" /\ ~HasKey(raw, "success")
        THEN NormalizeResponseStructure(Put(raw, "success", Bool(TRUE)))
        ELSE IF raw.k = "arr"
        THEN NormalizeResponseStructure(
               Obj(SpreadArray(raw.a) \o <<Prop("success", Bool(TRUE))>>))
        ELSE NormalizeResponseStructure(raw)
        : raw \in {rawResponse} })

(***************************************************************************)
(* MCP bridge.  The bridge object is the record `bridge`; a Map is a       *)
(* function whose domain is the set of keys present.                       *)
(***************************************************************************)
MAX_RETRIES == 3

EmptyMap == [x \in {} |-> 0]
MapGet(m, key, default) == The({ IF key \in DOMAIN f THEN f[key] ELSE default : f \in {m} })
MapSet(m, key, val) ==
  The({ [x \in DOMAIN f \cup {key} |-> IF x = key THEN v ELSE f[x]] : f \in {m}, v \in {val} })
MapDelete(m, key) == The({ [x \in DOMAIN f \ {key} |-> f[x]] : f \in {m} })

\* the declared input schema of each MCP tool of the model
DeclaredSchema(name) ==
  CASE name = "mcp_flaky" -> Schema(<<PropSchema("x", "number", NoItems)>>, {"x"})
    [] name = "mcp_firecrawl_scrape" -> Schema(<<PropSchema("url", "string", NoItems)>>, {"url"})
    [] OTHER -> NoSchema

\* the state of a bridge right after its constructor
NewBridge ==
  [mcpTools |-> {n \in McpToolNames : StartsWithMcp(n)},
   toolSchemas |-> [n \in {m \in McpToolNames : StartsWithMcp(m) /\ DeclaredSchema(m).has}
                      |-> DeclaredSchema(n)],
   learnedOutputSchemas |-> EmptyMap,
   toolCallRecords |-> <<>>,
   failedCallSignatures |-> EmptyMap,
   parameterWarnings |-> EmptyMap]

GetCallSignature(toolName, args) == toolName \o ":" \o JSONStringify(args)

RECURSIVE InferSchema(_, _)
InferSchema(value, depth) ==
  The({ IF depth > 3 THEN [type |-> "any"]
        ELSE CASE v.k = "null" -> [type |-> "null"]
               [] v.k = "undef" -> [type |-> "undefined"]
               [] v.k = "arr" ->
                    [type |-> "array",
                     itemType |-> IF Len(v.a) > 0 THEN InferSchema(v.a[1], depth + 1)
                                  ELSE [type |-> "unknown"],
                     length |-> Len(v.a)]
               [] v.k = "obj" ->
                    The({ [type |-> "object",
                           properties |-> [i \in 1..Len(ps) |->
                              [key |-> ps[i].key, schema |-> InferSchema(ps[i].val, depth + 1)]]]
                          : ps \in {SelectSeq(v.o, LAMBDA p : p.key \notin {"_raw", "_normalized"})} })
               [] OTHER -> [type |-> TypeOf(v)]
        : v \in {value} })

\* a comparison that takes any other schema for a more detailed one
IsDifferent(a, b) == a # b

IsMoreDetailed(a, b) ==
  The({ IF x.type = "object" /\ y.type = "object"
        THEN Len(x.properties) > Len(y.properties)
        ELSE IF x.type = "array" /\ y.type = "array"
        THEN x.length > y.length
        ELSE FALSE : x \in {a}, y \in {b} })

\* learnedOutputSchemas after learnOutputSchema(toolName, response)
LearnOutputSchema(learned, toolName, response) ==
  The({ IF \/ ~Truthy(r)
           \/ Get(r, "success") = Bool(FALSE)
           \/ Truthy(Get(r, "error"))
        THEN l
        ELSE The({ IF toolName \notin DOMAIN l \/ IsMoreDetailed(schema, l[toolName])
                   THEN MapSet(l, toolName, schema)
                   ELSE l : schema \in {InferSchema(r, 0)} })
        : l \in {learned}, r \in {response} })

\* errorMsg.includes(sub) for the error messages of the model
ErrorIncludes(msg, sub) ==
  <<msg, sub>> \in {<<"validation failed", "validation failed">>,
                    <<"410 Gone", "410">>, <<"410 Gone", "Gone">>,
                    <<"read ECONNRESET", "ECONNRESET">>,
                    <<"Unexpected token ')'", "Unexpected token">>,
                    <<"Unexpected end of input", "Unexpected end of input">>,
                    <<"await is only valid in async functions", "await is only valid">>}

\* an MCPToolResponse; error and data are Undef when absent
Response(callId, error, data) == [callId |-> callId, error |-> error, data |-> data]

\* an MCPToolCallRecord
BridgeRecord(toolName, args, normalizedArgs, rawResult, result, error) ==
  [toolName |-> toolName, args |-> args, normalizedArgs |-> normalizedArgs,
   rawResult |-> rawResult, result |-> result, error |-> error]

\* the circuit breaker's test on the count read for the signature
CircuitOpen(failCount) == failCount >= MAX_RETRIES

\* what handleRequest keeps across its await
PendingCall(request, normalized, callSignature, failCount) ==
  [toolName |-> request.toolName, args |-> request.args, callId |-> request.callId,
   normalized |-> normalized, callSignature |-> callSignature, failCount |-> failCount]

\* handleRequest from the signature on: kind is "blocked" (circuit open),
\* "failed" (the try block threw before the await) or "invoked" (execute
\* was called and is pending)
DispatchRequest(b, request, normalized) ==
  The({ IF CircuitOpen(p.failCount)
        THEN [kind |-> "blocked", bridge |-> b, pending |-> p,
              response |-> Response(request.callId,
                 Str("Tool " \o request.toolName \o " failed " \o ToString(p.failCount)
                     \o " times with same parameters. Check parameter format."), Undef)]
        ELSE IF request.toolName \notin b.mcpTools
        THEN [kind |-> "failed", pending |-> p,
              bridge |-> [b EXCEPT
                 !.toolCallRecords = Append(@, BridgeRecord(request.toolName, request.args,
                      normalized, Undef, Undef,
                      Str("Unknown MCP tool: " \o request.toolName))),
                 !.failedCallSignatures = MapSet(@, p.callSignature, p.failCount + 1)],
              response |-> Response(request.callId,
                                    Str("Unknown MCP tool: " \o request.toolName), Undef)]
        ELSE [kind |-> "invoked", bridge |-> b, pending |-> p,
              response |-> Response(request.callId, Undef, Undef)]
        : p \in {The({ PendingCall(request, normalized, sig,
                                   MapGet(b.failedCallSignatures, sig, 0))
                       : sig \in {GetCallSignature(request.toolName, normalized)} })} })

\* handleRequest up to the await of tool.execute
HandleRequestBegin(b, request) ==
  The({ DispatchRequest(
          IF Len(np.warnings) > 0
          THEN [b EXCEPT !.parameterWarnings = MapSet(@, request.toolName, np.warnings)]
          ELSE b,
          request, np.normalized)
        : np \in {NormalizeParameters(request.toolName, request.args,
                                      MapGet(b.toolSchemas, request.toolName, NoSchema))} })

\* the count stored after a failed call that read failCount before the await
FailureCountAfter(failCount) == failCount + 1

\* handleRequest after tool.execute returned rawResult
HandleRequestReturn(b, pending, rawResult) ==
  The({ [bridge |-> [b EXCEPT
           !.toolCallRecords = Append(@, BridgeRecord(pending.toolName, pending.args,
                                                      pending.normalized, rawResult,
                                                      transformedResult, Undef)),
           !.failedCallSignatures = MapDelete(@, pending.callSignature),
           !.learnedOutputSchemas = LearnOutputSchema(@, pending.toolName, transformedResult)],
         response |-> Response(pending.callId, Undef, transformedResult)]
        : transformedResult \in {TransformMCPResponse(rawResult)} })

\* the message returned for a thrown error
EnhancedError(errorMsg, pending) ==
  IF ErrorIncludes(errorMsg, "validation failed") \/ ErrorIncludes(errorMsg, "Invalid input")
  THEN errorMsg \o ". Original args: " \o JSONStringify(pending.args)
                \o ", Normalized: " \o JSONStringify(pending.normalized)
  ELSE errorMsg

\* handleRequest after tool.execute threw an Error with message errorMsg
HandleRequestThrow(b, pending, errorMsg) ==
  [bridge |-> [b EXCEPT
      !.toolCallRecords = Append(@, BridgeRecord(pending.toolName, pending.args,
                                                 pending.normalized, Undef, Undef,
                                                 Str(errorMsg))),
      !.failedCallSignatures = MapSet(@, pending.callSignature,
                                      FailureCountAfter(pending.failCount))],
   response |-> Response(pending.callId, Str(EnhancedError(errorMsg, pending)), Undef)]

\* a reset that forgets the learned output schemas too
BridgeResetAll(b) ==
  [b EXCEPT !.toolCallRecords = <<>>,
            !.failedCallSignatures = EmptyMap,
            !.parameterWarnings = EmptyMap,
            !.learnedOutputSchemas = EmptyMap]

\* reset()
BridgeReset(b) ==
  [b EXCEPT !.toolCallRecords = <<>>,
            !.failedCallSignatures = EmptyMap,
            !.parameterWarnings = EmptyMap]

(***************************************************************************)
(* Sandbox controller: the pure parts of execute, of the generated stubs   *)
(* and of the monitor.                                                     *)
(***************************************************************************)
\* the registry ProgrammaticToolCaller hands to the sandbox
ToolRegistry == {n \in LocalToolNames \cup McpToolNames : ~StartsWithMcp(n)}

\* the same identifier for every call
RepeatedCallId(serial) == 1

\* the identifier a stub draws for its call: serial stands for the clock
\* reading and the random suffix, which differ from call to call
NewCallId(serial) == serial

\* the path of the request file and of the result file of a call
FilePath(kind, callId) == <<kind, callId>>

\* the arguments the program passes to a stub of each kind
CallArgs(kind) ==
  IF kind = "local" THEN Arr(<<Obj(<<Prop("id", Num(1))>>)>>)
  ELSE Obj(<<Prop("x", Num(1))>>)

\* the poll loop's test with the timeout dropped
NeverTimedOut(polls) == FALSE

\* the number of empty polls after which the stub's timeout has expired
StubTimeoutPolls == 1

\* the poll loop's exit test, Date.now() - startTime < timeout, on the
\* count of polls made
TimedOut(polls) == ~(polls < StubTimeoutPolls)

\* the document a result file holds after the heredoc write of
\* JSON.stringify({ data: result }), as JSON.parse reads it back
DataDocument(result) == JSONClone(Obj(<<Prop("data", result)>>))

\* the document JSON.stringify({ error: message }) reads back as
ErrorDocument(message) == JSONClone(Obj(<<Prop("error", Str(message))>>))

\* the apostrophes in a message of the model
Apostrophes(message) == IF message = "can't" THEN 1 ELSE 0

\* whether bash -c "echo '<json>' > path" writes the file: with an odd
\* number of apostrophes in the json a quote stays open and bash runs nothing
EchoWrites(message) == Apostrophes(message) % 2 = 0

\* what the stub does with the document it read
StubOutcome(doc) ==
  The({ IF Truthy(Get(d, "error"))
        THEN [state |-> "threw", value |-> Get(d, "error")]
        ELSE [state |-> "returned", value |-> Get(d, "data")] : d \in {doc} })

\* the stale-session test of execute's catch
IsStaleSession(errorMsg) ==
  \/ ErrorIncludes(errorMsg, "410")
  \/ ErrorIncludes(errorMsg, "Gone")
  \/ ErrorIncludes(errorMsg, "ECONNRESET")

\* the retry test without the retried flag
RetryWhenStale(retried, errorMsg) == IsStaleSession(errorMsg)

\* the condition of the retry in execute's catch
ShouldRetry(retried, errorMsg) == ~retried /\ IsStaleSession(errorMsg)

\* new Error(message)
NewError(message) == [thrown |-> TRUE, message |-> message]

\* the programs of the model, each known by the message of the error that
\* new Function(code) throws for it, "" for a program it takes
Programs ==
  {"", "await is only valid in async functions", "Unexpected token ')'",
   "Unexpected end of input", "Invalid regular expression: missing /"}

\* validateJavaScriptSyntax(code): null or the syntax error as a string
ValidateJavaScriptSyntax(code) ==
  IF code = "" THEN Null
  ELSE IF ErrorIncludes(code, "Unexpected token")
  THEN Str("Syntax error: " \o code
             \o ". Check for missing brackets, parentheses, or semicolons.")
  ELSE IF ErrorIncludes(code, "Unexpected end of input")
  THEN Str("Syntax error: Code appears incomplete. "
             \o "Check for unclosed brackets, strings, or template literals.")
  ELSE IF ErrorIncludes(code, "await is only valid") THEN Null
  ELSE Str("JavaScript syntax error: " \o code)

\* a test that lets every program through
NeverRejects(syntaxError) == FALSE

\* if (syntaxError)
Rejects(syntaxError) == Truthy(syntaxError)

\* the error execute throws for a program the validator rejects
SyntaxFailure(syntaxError) == NewError("Code syntax error: " \o syntaxError.s)

\* the error a run throws for an output document that says failure
RunFailure(outputData) ==
  NewError(IF outputData.error = "" THEN "Execution failed" ELSE outputData.error)

\* the message of the error a run throws when there is no output file
NoOutputProduced == "Sandbox execution failed - no output produced."

\* the error execute's catch throws for a run that failed with errorMsg
ExecuteFailure(errorMsg) == NewError("Vercel Sandbox execution failed: " \o errorMsg)

\* the error of the code_execution tool's timer
TimeoutError == NewError("Code execution timeout after 25 seconds")

\* the error the code_execution tool's catch throws for error
CallFailure(error) == NewError("Code execution failed: " \o error.message)

\* a race that is never open
NeverRacing(outer) == FALSE

\* whether the Promise.race of the code_execution tool is still unsettled
Racing(outer) == outer = "pending"

\* whether the program reached a stub through the wrapper generated for
\* the tool, which tracks the result, or called the stub itself
ThroughWrapper(kind, toolName) ==
  IF kind = "local" THEN toolName \in ToolRegistry ELSE toolName \in McpToolNames

\* whether a Map or a record has the key
MapHas(m, key) == key \in DOMAIN m

\* the name a tool of an MCP server is registered under
PrefixedName(name) == IF StartsWithMcp(name) THEN name ELSE "mcp_" \o name

\* getMCPClientTools: the server's tools under their prefixed names, a later
\* entry replacing an earlier one of the same name; a tool is known by its
\* server and its own name
RECURSIVE GetMCPClientTools(_, _)
GetMCPClientTools(serverName, tools) ==
  The({ IF ts = <<>> THEN EmptyMap
        ELSE MapSet(GetMCPClientTools(serverName, SubSeq(ts, 1, Len(ts) - 1)),
                    PrefixedName(ts[Len(ts)]),
                    [server |-> serverName, name |-> ts[Len(ts)]])
        : ts \in {tools} })

\* Object.assign(target, source)
ObjectAssign(target, source) ==
  The({ [x \in DOMAIN t \cup DOMAIN src |-> IF x \in DOMAIN src THEN src[x] ELSE t[x]]
        : t \in {target}, src \in {source} })

\* allTools after 'delete this.allTools[toolName]' for every key of tools
DeleteKeys(allTools, tools) ==
  The({ [x \in DOMAIN a \ DOMAIN ts |-> a[x]] : a \in {allTools}, ts \in {tools} })

\* the manager after its constructor; closed is history: the servers whose
\* client the manager closed
NewManager == [connections |-> EmptyMap, allTools |-> EmptyMap, closed |-> {}]

\* getTools(): a copy of allTools
GetTools(mgr) == mgr.allTools

\* the number a stub gets when it returns: its place among the stubs that
\* returned
CompletionSerial(stubs) == Cardinality({i \in DOMAIN stubs : stubs[i].done > 0}) + 1

\* the results tracked by the wrappers of the stubs that returned n-th or
\* later
RECURSIVE AllResultsFrom(_, _)
AllResultsFrom(stubs, n) ==
  The({ IF n > Len(sts) THEN <<>>
        ELSE (IF \E i \in DOMAIN sts :
                    sts[i].done = n /\ ThroughWrapper(sts[i].kind, sts[i].toolName)
              THEN <<sts[CHOOSE i \in DOMAIN sts : sts[i].done = n].value>>
              ELSE <<>>) \o AllResultsFrom(sts, n + 1)
        : sts \in {stubs} })

\* __allResults: the results the wrappers tracked, in the order the stubs
\* returned
AllResults(stubs) == AllResultsFrom(stubs, 1)

\* a script that writes what the body returned, tracked results or not
ReturnedAsIs(result, allResults) == result

\* the result the script writes for the value the body returned
SynthesizedResult(result, allResults) ==
  IF result = Undef /\ Len(allResults) > 0
  THEN IF Len(allResults) = 1 THEN allResults[1]
       ELSE Obj(<<Prop("_autoGenerated", Bool(TRUE)),
                  Prop("message", Str("No explicit return - showing all tool results")),
                  Prop("count", Num(Len(allResults))),
                  Prop("results", Arr(allResults)),
                  Prop("lastResult", allResults[Len(allResults)])>>)
  ELSE result

\* a retry that keeps the cached worker
KeptOnRetry(vercelSandbox) == vercelSandbox

\* the cached worker after the retry branch assigns vercelSandbox = null
ClearedOnRetry(vercelSandbox) == 0

\* ensureSandbox(): the cached worker, or the one created when none is cached
EnsureSandbox(vercelSandbox, created) == IF vercelSandbox = 0 THEN created ELSE vercelSandbox

\* the output document the script writes in its catch branch
FailureOutput(error, allResults) ==
  [written |-> TRUE, success |-> FALSE, error |-> error,
   partialResult |-> IF allResults = <<>> THEN Null
                     ELSE Obj(<<Prop("_partial", Bool(TRUE)), Prop("error", Str(error)),
                                Prop("completedResults", Arr(allResults))>>)]

\* the output document the script writes when the body returned; returned is
\* history: the value the body returned
SuccessOutput(returned, allResults) ==
  [written |-> TRUE, success |-> TRUE, error |-> "", partialResult |-> Null,
   returned |-> returned,
   result |-> Get(JSONClone(Obj(<<Prop("success", Bool(TRUE)),
                                  Prop("result", SynthesizedResult(returned, allResults))>>)),
                  "result")]

\* a tool-call record; call names the stub whose request it was made for
CallRecord(toolName, args, isMCP, call) ==
  [toolName |-> toolName, args |-> args, isMCP |-> isMCP,
   result |-> Undef, error |-> Undef, call |-> call]

\* this.toolCalls after the merge of the bridge's records
RECURSIVE MergeBridgeRecords(_, _)
MergeBridgeRecords(toolCalls, mcpRecords) ==
  The({ IF rs = <<>> THEN tcs
        ELSE MergeBridgeRecords(
               IF \E i \in 1..Len(tcs) : tcs[i].toolName = rs[1].toolName /\ tcs[i].isMCP
               THEN tcs
               ELSE Append(tcs, [toolName |-> rs[1].toolName, args |-> rs[1].args,
                                 isMCP |-> TRUE, result |-> rs[1].result,
                                 error |-> rs[1].error, call |-> 0]),
               Tail(rs))
        : tcs \in {toolCalls}, rs \in {mcpRecords} })

(***************************************************************************)
(* Savings accountant and the metadata of a code_execution result.         *)
(***************************************************************************)
BaseContextTokens == 7000

\* every call taken for a local call
AllCalls(toolCalls) == toolCalls

McpCalls(toolCalls) == SelectSeq(toolCalls, LAMBDA tc : tc.isMCP)
LocalCalls(toolCalls) == SelectSeq(toolCalls, LAMBDA tc : ~tc.isMCP)

\* resultSizes: the token estimates of the records that have a result
RECURSIVE ResultSizes(_)
ResultSizes(toolCalls) ==
  The({ IF tcs = <<>> THEN <<>>
        ELSE IF Truthy(tcs[1].result)
        THEN <<TokensOf(tcs[1].result)>> \o ResultSizes(Tail(tcs))
        ELSE ResultSizes(Tail(tcs)) : tcs \in {toolCalls} })

RECURSIVE SumSeq(_)
SumSeq(ns) == The({ IF s = <<>> THEN 0 ELSE s[1] + SumSeq(Tail(s)) : s \in {ns} })

\* getIntermedateTokenEstimate()
GetIntermedateTokenEstimate(toolCalls) == SumSeq(ResultSizes(toolCalls))

\* getEfficiencyMetrics()
GetEfficiencyMetrics(toolCalls) ==
  [intermediateTokensSaved |-> GetIntermedateTokenEstimate(toolCalls)]

\* the loop for (i = 1; i < numCalls; i++) from i on
RECURSIVE RoundTripFrom(_, _, _, _, _)
RoundTripFrom(i, numCalls, resultSizes, accumulatedResults, baseContextTokens) ==
  IF i >= numCalls THEN 0
  ELSE The({ baseContextTokens + acc
               + RoundTripFrom(i + 1, numCalls, resultSizes, acc, baseContextTokens)
             : acc \in {accumulatedResults
                          + (IF i <= Len(resultSizes) /\ resultSizes[i] # 0
                             THEN resultSizes[i] ELSE 50)} })

\* a total that leaves the LLM decisions out
TotalWithoutDecisions(intermediate, roundTrip, overhead, decisions) ==
  intermediate + roundTrip + overhead

TotalSaved(intermediate, roundTrip, overhead, decisions) ==
  intermediate + roundTrip + overhead + decisions

\* a single call accounted as several calls are
SingleCallCounted(toolCalls) ==
  [intermediateResultTokens |-> SumSeq(ResultSizes(toolCalls)), roundTripContextTokens |-> 0,
   toolCallOverheadTokens |-> Len(toolCalls) * 40, llmDecisionTokens |-> 0,
   totalSaved |-> SumSeq(ResultSizes(toolCalls)) + Len(toolCalls) * 40,
   breakdown |-> "tool calls executed in sandbox",
   mcpToolCalls |-> Len(McpCalls(toolCalls)),
   localToolCalls |-> Len(toolCalls) - Len(McpCalls(toolCalls))]

\* the value returned for at most one call
NoSavings(toolCalls) ==
  [intermediateResultTokens |-> 0, roundTripContextTokens |-> 0,
   toolCallOverheadTokens |-> 0, llmDecisionTokens |-> 0, totalSaved |-> 0,
   breakdown |-> "No savings (single tool call)",
   mcpToolCalls |-> Len(McpCalls(toolCalls)),
   localToolCalls |-> Len(toolCalls) - Len(McpCalls(toolCalls))]

\* the value returned for two calls or more
Savings(intermediate, roundTrip, overhead, decisions, toolCalls) ==
  [intermediateResultTokens |-> intermediate,
   roundTripContextTokens |-> roundTrip,
   toolCallOverheadTokens |-> overhead,
   llmDecisionTokens |-> decisions,
   totalSaved |-> TotalSaved(intermediate, roundTrip, overhead, decisions),
   breakdown |-> "tool calls executed in sandbox",
   mcpToolCalls |-> Len(McpCalls(toolCalls)),
   localToolCalls |-> Len(toolCalls) - Len(McpCalls(toolCalls))]

GetComprehensiveTokenSavings(toolCalls, baseContextTokens) ==
  The({ IF Len(tcs) <= 1
        THEN NoSavings(tcs)
        ELSE The({ Savings(SumSeq(sizes),
                           RoundTripFrom(1, Len(tcs), sizes, 0, baseContextTokens),
                           Len(tcs) * 40, (Len(tcs) - 1) * 80, tcs)
                   : sizes \in {ResultSizes(tcs)} })
        : tcs \in {toolCalls} })

NoMetadata == [toolCallCount |-> -1]

\* the metadata of the value execute returns for output and toolCalls
CodeExecutionMetadata(toolCalls, tokenSavings) ==
  The({ [toolCallCount |-> Len(tcs),
         localToolCallCount |-> Len(LocalCalls(tcs)),
         mcpToolCallCount |-> Len(McpCalls(tcs)),
         intermediateTokensSaved |-> ts.intermediateResultTokens,
         totalTokensSaved |-> ts.totalSaved,
         tokenSavingsBreakdown |->
           [intermediateResults |-> ts.intermediateResultTokens,
            roundTripContext |-> ts.roundTripContextTokens,
            toolCallOverhead |-> ts.toolCallOverheadTokens,
            llmDecisions |-> ts.llmDecisionTokens],
         sandboxToolCalls |-> [i \in 1..Len(tcs) |->
            [toolName |-> tcs[i].toolName, args |-> tcs[i].args, result |-> tcs[i].result,
             error |-> tcs[i].error, isMCP |-> tcs[i].isMCP]]]
        : tcs \in {toolCalls}, ts \in {tokenSavings} })

(***************************************************************************)
(* Context filter.  A message is a record of role and content; the content *)
(* of a tool message is a string or an array of parts.                     *)
(***************************************************************************)
Message(role, content) == [role |-> role, content |-> content]
ToolResultPart(toolName) ==
  Obj(<<Prop("type", Str("tool-result")), Prop("toolName", Str(toolName))>>)

\* message.content.some(part => part.type === 'tool-result' &&
\*                              part.toolName === 'code_execution')
SomePartIsCodeExecution(content) ==
  \E i \in 1..Len(content.a) :
     /\ Get(content.a[i], "type") = Str("tool-result")
     /\ Get(content.a[i], "toolName") = Str("code_execution")

\* the strings JSON.parse reads as a tool result in the model
ParseToolContent(text) ==
  CASE text = "{\"toolName\":\"code_execution\"}" ->
         [ok |-> TRUE, v |-> Obj(<<Prop("toolName", Str("code_execution"))>>)]
    [] text = "{\"toolName\":\"getUser\"}" ->
         [ok |-> TRUE, v |-> Obj(<<Prop("toolName", Str("getUser"))>>)]
    [] OTHER -> [ok |-> FALSE, v |-> Undef]

\* isCodeExecution of addMessage for a tool message
IsCodeExecution(content) ==
  The({ IF c.k = "str"
        THEN The({ p.ok /\ Get(p.v, "toolName") = Str("code_execution")
                   : p \in {ParseToolContent(c.s)} })
        ELSE IF IsArray(c) THEN SomePartIsCodeExecution(c)
        ELSE FALSE : c \in {content} })

\* an estimate of one token per character
EstimateByLength(message) == Len(JSONStringify(message.content))

\* estimateTokens(message)
EstimateTokens(message) == TokensOf(message.content)

\* whether addMessage pushes the message
Admits(message, isCodeExecutionResult) ==
  \/ isCodeExecutionResult
  \/ message.role \in {"assistant", "user"}
  \/ message.role = "tool" /\ IsCodeExecution(message.content)

\* tokensSaved after addMessage
TokensSavedAfter(tokensSaved, message, isCodeExecutionResult) ==
  IF ~isCodeExecutionResult /\ message.role = "tool" /\ ~IsCodeExecution(message.content)
  THEN tokensSaved + EstimateTokens(message)
  ELSE tokensSaved

\* an addMessage call: the message and the option passed with it
AddCall(message, isCodeExecutionResult) ==
  [message |-> message, isCodeExecutionResult |-> isCodeExecutionResult]

\* the addMessage calls onStepFinish makes for the tool results of a step
RECURSIVE StepToolCalls(_)
StepToolCalls(toolResults) ==
  The({ IF trs = <<>> THEN <<>>
        ELSE IF trs[1] = "code_execution"
        THEN <<AddCall(Message("tool", Arr(<<ToolResultPart(trs[1])>>)), TRUE)>>
               \o StepToolCalls(Tail(trs))
        ELSE StepToolCalls(Tail(trs)) : trs \in {toolResults} })

\* the addMessage calls onStepFinish makes for a step: the assistant text,
\* then one tool message per code_execution result
StepCalls(step) ==
  (IF step.text # "" THEN <<AddCall(Message("assistant", Str(step.text)), FALSE)>> ELSE <<>>)
    \o StepToolCalls(step.toolResults)

(***************************************************************************)
(* State.                                                                  *)
(***************************************************************************)
VARIABLES
  bridge,         \* the MCPToolBridge object
  inflight,       \* handleRequest calls awaiting tool.execute, by direct caller
  bridgeCalls,    \* history: handleRequest calls begun by direct callers
  streak,         \* history: per signature, the failed calls since its last success or reset
  lastHandle,     \* history: what the latest direct handleRequest call saw and did
  outer,          \* the code_execution tool's execute: idle, pending, returned, threw
  metadata,       \* the metadata of the value code_execution returned
  pc,             \* ToolOrchestrationSandbox.execute: idle, node, returned, threw
  retried,        \* execute's retried flag
  runs,           \* history: runs of executeWithSandbox started
  staleFailures,  \* history: runs that failed with a stale-session message
  vercelSandbox,  \* the cached worker: 0 for null, else its number
  unreachable,    \* the workers whose commands the host can no longer run
  toolCalls,      \* this.toolCalls
  resets,         \* history: the times this.toolCalls was replaced by a new array
  monitors,       \* the monitor started by each run
  callFiles,      \* the request files in the workers' /tmp, by path
  resultFiles,    \* the result files in the workers' /tmp, by path
  stubs,          \* the stub calls the program made, in the order made
  output,         \* /tmp/sandbox_output.json of the cached worker
  syntaxError,    \* execute's syntaxError: what the validator said of the program
  thrown,         \* the error ToolOrchestrationSandbox.execute threw
  failure,        \* the error the code_execution call threw
  executions,     \* history: the execute calls that started a run
  program,        \* the program of the latest run: none, running, wrote, exited
  messageHistory, \* ContextManager.messageHistory
  tokensSaved,    \* ContextManager.tokensSaved
  added,          \* history: the messages given to addMessage since the last reset
  normalizerCall, \* the latest call of a normalizer by itself: arguments and result
  manager         \* MCPServerManager: connections and allTools

bridgeDriverVars == <<inflight, bridgeCalls, streak, lastHandle>>
sandboxVars ==
  <<outer, metadata, pc, retried, runs, staleFailures, vercelSandbox, unreachable, toolCalls,
    resets, monitors, callFiles, resultFiles, stubs, output, syntaxError, thrown, failure,
    executions, program>>
callVars == <<syntaxError, thrown, failure>>
filterVars == <<messageHistory, tokensSaved, added>>

vars == <<bridge, bridgeDriverVars, sandboxVars, filterVars, normalizerCall, manager>>

NoHandle == [kind |-> "none"]
NoOutput == [written |-> FALSE]
NoCall == [stub |-> 0]
NoResponse == [stub |-> 0, n |-> 0]
NoError == [thrown |-> FALSE]
NoNormalizerCall == [fn |-> "none"]

BridgeStart ==
  /\ bridge = NewBridge
  /\ inflight = EmptyMap
  /\ bridgeCalls = 0
  /\ streak = EmptyMap
  /\ lastHandle = NoHandle

SandboxStart ==
  /\ outer = "idle"
  /\ metadata = NoMetadata
  /\ pc = "idle"
  /\ retried = FALSE
  /\ runs = 0
  /\ staleFailures = 0
  /\ vercelSandbox = 0
  /\ unreachable = {}
  /\ toolCalls = <<>>
  /\ resets = 0
  /\ monitors = <<>>
  /\ callFiles = EmptyMap
  /\ resultFiles = EmptyMap
  /\ stubs = <<>>
  /\ output = NoOutput
  /\ syntaxError = Null
  /\ thrown = NoError
  /\ failure = NoError
  /\ executions = 0
  /\ program = "none"

FilterStart ==
  /\ messageHistory = <<>>
  /\ tokensSaved = 0
  /\ added = <<>>

\* the state after the constructors
Init ==
  /\ BridgeStart /\ SandboxStart /\ FilterStart /\ normalizerCall = NoNormalizerCall
  /\ manager = NewManager

(***************************************************************************)
(* The bridge driven directly: callers begin handleRequest calls, which    *)
(* overlap when begun together (executeBatch), tools return or throw, and  *)
(* the owner resets the bridge.                                            *)
(***************************************************************************)
MaxBridgeCalls == 4

\* the callers whose handleRequest calls can be pending at the same time
BridgeCallers == {"first", "second"}

BridgeRequests ==
  {[toolName |-> "mcp_flaky", args |-> Obj(<<Prop("x", Num(1))>>), callId |-> "c"],
   [toolName |-> "mcp_flaky", args |-> Obj(<<Prop("x", Str("1"))>>), callId |-> "c"],
   [toolName |-> "mcp_search", args |-> Str("q"), callId |-> "c"]}

\* what a bridged tool's execute can return
McpRawResults ==
  {Obj(<<Prop("markdown", Str("hi"))>>),
   Obj(<<Prop("content", Arr(<<>>))>>),
   Obj(<<Prop("content", Arr(<<Obj(<<Prop("type", Str("text")), Prop("text", Str("bad"))>>)>>)),
         Prop("isError", Bool(TRUE))>>)}

\* the messages of the errors a bridged tool's execute can throw
McpErrorMessages == {"validation failed"}

\* handleRequest(request) by caller c, up to its await
HandleRequestCall(c, request) ==
  /\ c \notin DOMAIN inflight
  /\ bridgeCalls < MaxBridgeCalls
  /\ \E h \in {HandleRequestBegin(bridge, request)} :
       /\ bridgeCalls' = bridgeCalls + 1
       /\ bridge' = h.bridge
       /\ inflight' = IF h.kind = "invoked" THEN MapSet(inflight, c, h.pending) ELSE inflight
       /\ streak' = IF h.kind = "failed"
                    THEN MapSet(streak, h.pending.callSignature,
                                MapGet(streak, h.pending.callSignature, 0) + 1)
                    ELSE streak
       /\ lastHandle' = [kind |-> h.kind, callSignature |-> h.pending.callSignature,
                         streakBefore |-> MapGet(streak, h.pending.callSignature, 0),
                         countBefore |-> h.pending.failCount]
  /\ UNCHANGED <<sandboxVars, filterVars, normalizerCall, manager>>

\* tool.execute of caller c's call resolves with rawResult
ToolExecuteReturns(c, rawResult) ==
  /\ c \in DOMAIN inflight
  /\ bridge' = HandleRequestReturn(bridge, inflight[c], rawResult).bridge
  /\ inflight' = MapDelete(inflight, c)
  /\ streak' = MapDelete(streak, inflight[c].callSignature)
  /\ UNCHANGED <<bridgeCalls, lastHandle, sandboxVars, filterVars, normalizerCall, manager>>

\* tool.execute of caller c's call rejects with an Error(errorMsg)
ToolExecuteThrows(c, errorMsg) ==
  /\ c \in DOMAIN inflight
  /\ bridge' = HandleRequestThrow(bridge, inflight[c], errorMsg).bridge
  /\ inflight' = MapDelete(inflight, c)
  /\ streak' = MapSet(streak, inflight[c].callSignature,
                      MapGet(streak, inflight[c].callSignature, 0) + 1)
  /\ UNCHANGED <<bridgeCalls, lastHandle, sandboxVars, filterVars, normalizerCall, manager>>

\* reset() by the bridge's owner
ResetBridge ==
  /\ bridge.toolCallRecords # <<>> \/ DOMAIN bridge.parameterWarnings # {}
  /\ bridge' = BridgeReset(bridge)
  /\ streak' = EmptyMap
  /\ UNCHANGED <<inflight, bridgeCalls, lastHandle, sandboxVars, filterVars, normalizerCall, manager>>

BridgeNext ==
  \/ \E c \in BridgeCallers, request \in BridgeRequests : HandleRequestCall(c, request)
  \/ \E c \in BridgeCallers, rawResult \in McpRawResults : ToolExecuteReturns(c, rawResult)
  \/ \E c \in BridgeCallers, errorMsg \in McpErrorMessages : ToolExecuteThrows(c, errorMsg)
  \/ ResetBridge

BridgeSpec == Init /\ [][BridgeNext]_vars

(***************************************************************************)
(* The context filter driven by its two callers: addMessage directly and   *)
(* through the onStepFinish hook of withContextManagement.                 *)
(***************************************************************************)
MaxMessages == 3

FilterMessages ==
  {Message("user", Str("hi")),
   Message("assistant", Str("ok")),
   Message("system", Str("sys")),
   Message("tool", Str("{\"toolName\":\"code_execution\"}")),
   Message("tool", Str("{\"toolName\":\"getUser\"}")),
   Message("tool", Str("plain")),
   Message("tool", Arr(<<ToolResultPart("code_execution")>>)),
   Message("tool", Arr(<<ToolResultPart("getUser")>>)),
   Message("tool", Arr(<<ToolResultPart("getUser"), ToolResultPart("code_execution")>>))}

FilterSteps ==
  {[text |-> "done", toolResults |-> <<"code_execution">>],
   [text |-> "", toolResults |-> <<"getUser", "code_execution">>],
   [text |-> "calling", toolResults |-> <<"getUser">>]}

FilterState == [messageHistory |-> messageHistory, tokensSaved |-> tokensSaved, added |-> added]

\* the manager after the addMessage calls of a sequence, in order
RECURSIVE AddAll(_, _)
AddAll(st, calls) ==
  The({ IF cs = <<>> THEN s
        ELSE AddAll(
               [messageHistory |-> IF Admits(cs[1].message, cs[1].isCodeExecutionResult)
                                   THEN Append(s.messageHistory, cs[1].message)
                                   ELSE s.messageHistory,
                tokensSaved |-> TokensSavedAfter(s.tokensSaved, cs[1].message,
                                                 cs[1].isCodeExecutionResult),
                added |-> Append(s.added, cs[1].message)],
               Tail(cs))
        : s \in {st}, cs \in {calls} })

\* addMessage(message) without options
AddMessage(message) ==
  /\ Len(added) < MaxMessages
  /\ \E s \in {AddAll(FilterState, <<AddCall(message, FALSE)>>)} :
       /\ messageHistory' = s.messageHistory
       /\ tokensSaved' = s.tokensSaved
       /\ added' = s.added
  /\ UNCHANGED <<bridge, bridgeDriverVars, sandboxVars, normalizerCall, manager>>

\* the onStepFinish hook for a step
OnStepFinish(step) ==
  /\ \E calls \in {StepCalls(step)} :
       /\ Len(added) + Len(calls) <= MaxMessages
       /\ \E s \in {AddAll(FilterState, calls)} :
            /\ messageHistory' = s.messageHistory
            /\ tokensSaved' = s.tokensSaved
            /\ added' = s.added
  /\ UNCHANGED <<bridge, bridgeDriverVars, sandboxVars, normalizerCall, manager>>

\* reset()
ResetContext ==
  /\ added # <<>>
  /\ messageHistory' = <<>>
  /\ tokensSaved' = 0
  /\ added' = <<>>
  /\ UNCHANGED <<bridge, bridgeDriverVars, sandboxVars, normalizerCall, manager>>

FilterNext ==
  \/ \E message \in FilterMessages : AddMessage(message)
  \/ \E step \in FilterSteps : OnStepFinish(step)
  \/ ResetContext

FilterSpec == Init /\ [][FilterNext]_vars

(***************************************************************************)
(* The two normalizers called by themselves, as the bridge calls them.     *)
(***************************************************************************)
\* the input schemas the parameter normalizer is given
NormalizerSchemas ==
  {NoSchema,
   Schema(<<PropSchema("x", "number", NoItems)>>, {"x"}),
   Schema(<<PropSchema("url", "string", NoItems), PropSchema("flag", "boolean", NoItems)>>,
          {"url"}),
   Schema(<<PropSchema("urls", "array",
                       ItemSchema("object", <<PropSchema("url", "string", NoItems)>>, {"url"})),
            PropSchema("opts", "object", NoItems)>>, {"urls"})}

\* the tools whose arguments are normalized
NormalizerTools == {"mcp_flaky", "mcp_firecrawl_scrape", "mcp_search", "mcp_extract"}

\* the arguments the parameter normalizer is given: values a request file
\* can hold
NormalizerArgs ==
  {Null, Undef, Str("q"), Num(5), Bool(TRUE), Arr(<<Str("a")>>), Obj(<<>>),
   Obj(<<Prop("x", Num(1))>>), Obj(<<Prop("x", Str("1"))>>), Obj(<<Prop("x", Str("abc"))>>),
   Obj(<<Prop("x", Null)>>), Obj(<<Prop("url", Num(5)), Prop("flag", Str("no"))>>),
   Obj(<<Prop("urls", Str("u")), Prop("opts", Str("o"))>>),
   Obj(<<Prop("urls", Arr(<<Str("u"), Str("v")>>))>>)}

\* the raw responses the response normalizer is given
NormalizerResponses ==
  McpRawResults \cup
  {Null, Undef, Str("t"), Num(5), Arr(<<Num(1)>>),
   Obj(<<Prop("data", Arr(<<Num(1)>>))>>),
   Obj(<<Prop("content", Arr(<<>>))>>),
   Obj(<<Prop("content", Arr(<<Obj(<<Prop("type", Str("image"))>>)>>))>>),
   Obj(<<Prop("content", Arr(<<Obj(<<Prop("type", Str("text")),
                                      Prop("text", Str("{\"markdown\":\"hi\"}"))>>)>>))>>),
   Obj(<<Prop("content", Arr(<<Obj(<<Prop("type", Str("text")), Prop("text", Str("5"))>>)>>))>>),
   Obj(<<Prop("content", Arr(<<Obj(<<Prop("type", Str("text")),
                                      Prop("text", Str("plain"))>>)>>))>>),
   Obj(<<Prop("content", Arr(<<Obj(<<Prop("type", Str("text")), Prop("text", Str("plain"))>>),
                               Obj(<<Prop("type", Str("text")), Prop("text", Str("5"))>>)>>))>>)}

\* normalizeParameters(toolName, args, schema)
NormalizeParametersCall(toolName, args, schema) ==
  /\ normalizerCall' = [fn |-> "normalizeParameters", toolName |-> toolName, args |-> args,
                        schema |-> schema,
                        result |-> NormalizeParameters(toolName, args, schema)]
  /\ UNCHANGED <<bridge, bridgeDriverVars, sandboxVars, filterVars, manager>>

\* transformMCPResponse(rawResponse)
TransformMCPResponseCall(rawResponse) ==
  /\ normalizerCall' = [fn |-> "transformMCPResponse", rawResponse |-> rawResponse,
                        result |-> TransformMCPResponse(rawResponse)]
  /\ UNCHANGED <<bridge, bridgeDriverVars, sandboxVars, filterVars, manager>>

NormalizerNext ==
  \/ \E toolName \in NormalizerTools, args \in NormalizerArgs, schema \in NormalizerSchemas :
        NormalizeParametersCall(toolName, args, schema)
  \/ \E rawResponse \in NormalizerResponses : TransformMCPResponseCall(rawResponse)

NormalizerSpec == Init /\ [][NormalizerNext]_vars

(***************************************************************************)
(* The MCP server manager: addServer, removeServer and close, called one   *)
(* after the other, each awaited.                                          *)
(***************************************************************************)
\* the names of the configured servers
ManagerServers == {"Firecrawl MCP", "CLI", "Azure MCP"}

\* what client.tools() of a server can give: the names of its tools, in
\* the order of its entries
ServerToolLists == {<<"search">>, <<"scrape">>, <<"search", "scrape">>, <<"scrape", "mcp_search">>}

\* AddServer(config, tools): the connection is stored and its tools are
\* merged into allTools, unless the name is connected already
AddServer(config, tools) ==
  /\ ~MapHas(manager.connections, config)
  /\ \E prefixed \in {GetMCPClientTools(config, tools)} :
       manager' = [manager EXCEPT !.connections = MapSet(@, config, prefixed),
                                  !.allTools = ObjectAssign(@, prefixed)]
  /\ UNCHANGED <<bridge, bridgeDriverVars, sandboxVars, filterVars, normalizerCall>>

\* removeServer(name) for a connected server: its client is closed, the
\* names of its tools are deleted from allTools and the connection dropped
RemoveServer(name) ==
  /\ MapHas(manager.connections, name)
  /\ manager' = [connections |-> MapDelete(manager.connections, name),
                 allTools |-> DeleteKeys(manager.allTools, manager.connections[name]),
                 closed |-> manager.closed \cup {name}]
  /\ UNCHANGED <<bridge, bridgeDriverVars, sandboxVars, filterVars, normalizerCall>>

\* close(): every client is closed, connections and allTools are emptied
CloseManager ==
  /\ DOMAIN manager.connections # {}
  /\ manager' = [connections |-> EmptyMap, allTools |-> EmptyMap,
                 closed |-> manager.closed \cup DOMAIN manager.connections]
  /\ UNCHANGED <<bridge, bridgeDriverVars, sandboxVars, filterVars, normalizerCall>>

ManagerNext ==
  \/ \E config \in ManagerServers, tools \in ServerToolLists : AddServer(config, tools)
  \/ \E name \in ManagerServers : RemoveServer(name)
  \/ CloseManager

ManagerSpec == Init /\ [][ManagerNext]_vars

(***************************************************************************)
(* One code_execution call: execute and its runs, the program and its      *)
(* stubs in the worker, and the monitors on the host.  Each action is one  *)
(* stretch of code between two awaits.                                     *)
(***************************************************************************)
\* the tool calls the program makes during the call
MaxCalls == 2

\* the tool-call records pushed during the call
MaxRecords == 2

\* the polls a stub makes
MaxPolls == 2

\* the tool calls the program makes during a call that retries its run
MaxRetryCalls == 0

\* the stubs the program can reach: the generated wrappers call the local
\* stub with a local name and the MCP stub with an MCP name; both stubs are
\* in the program's scope and take any name
ProgramCalled ==
  {[kind |-> "local", toolName |-> "getUser"],
   [kind |-> "local", toolName |-> "mcp_flaky"],
   [kind |-> "mcp", toolName |-> "mcp_flaky"],
   [kind |-> "mcp", toolName |-> "getUser"]}

\* what the local tool can return, and the messages of what it can throw
LocalResults == {Obj(<<Prop("id", Num(1))>>), Undef}
LocalErrorMessages == {"boom", "", "can't"}

\* the messages of the errors the program can end with
ProgramErrors == {"boom", "read ECONNRESET"}

\* the messages of the errors the node command can reject with
NodeErrors == {"410 Gone"}

\* what a bridged tool's execute can return during the call
BridgedResults == {Obj(<<Prop("markdown", Str("hi"))>>)}

\* the monitor a run starts on its worker; execution is history: the execute
\* call the run belongs to
NewMonitor(sandbox, execution) ==
  [sandbox |-> sandbox, stopped |-> FALSE, phase |-> "top", queue |-> <<>>, cur |-> NoCall,
   execution |-> execution]

\* the calls made by the program of an execute call
OwnStubs(sts, execution) == SelectSeq(sts, LAMBDA st : st.execution = execution)

\* the sorted listing ls gives of a set of paths
RECURSIVE SortedPaths(_)
SortedPaths(paths) ==
  The({ IF ps = {} THEN <<>>
        ELSE The({ <<p>> \o SortedPaths(ps \ {p})
                   : p \in {CHOOSE q \in ps : \A r \in ps : q[2] <= r[2]} })
        : ps \in {paths} })

\* ls of the request files of a kind in a worker
ListFiles(kind, sandbox) ==
  SortedPaths({p \in DOMAIN callFiles : p[1] = kind /\ callFiles[p].sandbox = sandbox})

\* the records pushed so far, over all request files
RECURSIVE Recorded(_)
Recorded(sts) == The({ IF s = <<>> THEN 0 ELSE s[1].recorded + Recorded(Tail(s)) : s \in {sts} })

\* this.toolCalls after an assignment to a field of a record pushed earlier:
\* the record is in the current array unless that was replaced since
WithField(tcs, cur, field, value) ==
  IF cur.gen = resets /\ cur.rec <= Len(tcs)
  THEN [tcs EXCEPT ![cur.rec] = [@ EXCEPT ![field] = value]]
  ELSE tcs

\* execute ends with result, its records being calls, and with thrown' its
\* error: the code_execution call settles with it unless its timer won, and
\* its finally block resets the sandbox
Settle(result, calls) ==
  IF Racing(outer)
  THEN /\ outer' = result
       /\ metadata' = IF result = "returned"
                      THEN CodeExecutionMetadata(calls,
                             GetComprehensiveTokenSavings(calls, BaseContextTokens))
                      ELSE metadata
       /\ failure' = IF result = "threw" THEN CallFailure(thrown') ELSE failure
       /\ toolCalls' = <<>>
       /\ resets' = resets + 1
       /\ bridge' = BridgeReset(bridge)
  ELSE /\ toolCalls' = calls
       /\ UNCHANGED <<outer, metadata, failure, resets, bridge>>

\* code_execution is called with a program that parses: execute clears its
\* records, provisions the worker, writes the script, starts the monitor
\* and the node command
CodeExecutionCall(code) ==
  /\ outer = "idle"
  /\ ~Rejects(ValidateJavaScriptSyntax(code))
  /\ syntaxError' = ValidateJavaScriptSyntax(code)
  /\ outer' = "pending"
  /\ toolCalls' = <<>>
  /\ resets' = resets + 1
  /\ bridge' = BridgeReset(bridge)
  /\ vercelSandbox' = EnsureSandbox(vercelSandbox, 1)
  /\ retried' = FALSE
  /\ runs' = 1
  /\ pc' = "node"
  /\ monitors' = <<NewMonitor(1, 1)>>
  /\ executions' = 1
  /\ program' = "running"
  /\ UNCHANGED <<metadata, staleFailures, unreachable, callFiles, resultFiles, stubs, output,
                 thrown, failure, bridgeDriverVars, filterVars, normalizerCall, manager>>

\* the execute calls of the model
MaxExecutions == 2

\* code_execution is called again, the call and the execute before it having
\* ended: execute clears its records and starts a run on the cached worker,
\* whose /tmp is as the runs before left it
CodeExecutionAgain(code) ==
  /\ outer \in {"returned", "threw"}
  /\ pc \in {"returned", "threw"}
  /\ executions < MaxExecutions
  /\ ~Rejects(ValidateJavaScriptSyntax(code))
  /\ syntaxError' = ValidateJavaScriptSyntax(code)
  /\ outer' = "pending"
  /\ toolCalls' = <<>>
  /\ resets' = resets + 1
  /\ bridge' = BridgeReset(bridge)
  /\ vercelSandbox' = EnsureSandbox(vercelSandbox, runs + 1)
  /\ retried' = FALSE
  /\ runs' = runs + 1
  /\ pc' = "node"
  /\ monitors' = Append(monitors, NewMonitor(vercelSandbox', executions + 1))
  /\ executions' = executions + 1
  /\ program' = "running"
  /\ UNCHANGED <<metadata, staleFailures, unreachable, callFiles, resultFiles, stubs, output,
                 thrown, failure, bridgeDriverVars, filterVars, normalizerCall, manager>>

\* code_execution is called with a program the syntax validator rejects
CodeExecutionRejected(code) ==
  /\ outer = "idle"
  /\ Rejects(ValidateJavaScriptSyntax(code))
  /\ syntaxError' = ValidateJavaScriptSyntax(code)
  /\ outer' = "threw"
  /\ pc' = "threw"
  /\ thrown' = SyntaxFailure(syntaxError')
  /\ failure' = CallFailure(thrown')
  /\ toolCalls' = <<>>
  /\ resets' = resets + 2
  /\ bridge' = BridgeReset(bridge)
  /\ UNCHANGED <<metadata, retried, runs, staleFailures, vercelSandbox, unreachable, monitors,
                 callFiles, resultFiles, stubs, output, bridgeDriverVars, filterVars, normalizerCall, manager, executions, program>>

\* the 25 second timer of the code_execution tool fires first
OuterTimeout ==
  /\ Racing(outer)
  /\ outer' = "threw"
  /\ failure' = CallFailure(TimeoutError)
  /\ toolCalls' = <<>>
  /\ resets' = resets + 1
  /\ bridge' = BridgeReset(bridge)
  /\ UNCHANGED <<metadata, pc, retried, runs, staleFailures, vercelSandbox, unreachable,
                 monitors, callFiles, resultFiles, stubs, output, syntaxError, thrown,
                 bridgeDriverVars, filterVars, normalizerCall, manager, executions, program>>

\* the program calls a stub: the stub draws its identifier, writes the
\* request file and starts polling
ProgramCalls(kind, toolName) ==
  /\ pc = "node"
  /\ program = "running"
  /\ Len(stubs) < MaxCalls
  /\ retried => Len(stubs) < MaxRetryCalls
  /\ \E callId \in {NewCallId(Len(stubs) + 1)} :
       /\ stubs' = Append(stubs,
            [kind |-> kind, toolName |-> toolName, callId |-> callId,
             sandbox |-> vercelSandbox, state |-> "polling", polls |-> 0, value |-> Undef,
             got |-> NoResponse, invoked |-> 0, written |-> 0, recorded |-> 0, threw |-> 0,
             done |-> 0, execution |-> executions])
       /\ callFiles' = MapSet(callFiles, FilePath(kind, callId),
            [toolName |-> toolName, args |-> CallArgs(kind), callId |-> callId,
             sandbox |-> vercelSandbox, stub |-> Len(stubs) + 1])
  /\ UNCHANGED <<bridge, outer, metadata, pc, retried, runs, staleFailures, vercelSandbox,
                 unreachable, toolCalls, resets, monitors, resultFiles, output,
                 bridgeDriverVars, filterVars, callVars, normalizerCall, manager, executions, program>>

\* a poll of stub i finds no result file
StubMisses(i) ==
  /\ i <= Len(stubs)
  /\ stubs[i].state = "polling"
  /\ ~TimedOut(stubs[i].polls)
  /\ stubs[i].polls < MaxPolls
  /\ FilePath(stubs[i].kind, stubs[i].callId) \notin DOMAIN resultFiles
  /\ stubs' = [stubs EXCEPT ![i].polls = @ + 1]
  /\ UNCHANGED <<bridge, outer, metadata, pc, retried, runs, staleFailures, vercelSandbox,
                 unreachable, toolCalls, resets, monitors, callFiles, resultFiles, output,
                 bridgeDriverVars, filterVars, callVars, normalizerCall, manager, executions, program>>

\* a poll of stub i reads the result file: the stub deletes both files and
\* returns the data or throws the error
StubConsumes(i) ==
  /\ i <= Len(stubs)
  /\ stubs[i].state = "polling"
  /\ ~TimedOut(stubs[i].polls)
  /\ \E path \in {FilePath(stubs[i].kind, stubs[i].callId)} :
       /\ path \in DOMAIN resultFiles
       /\ \E o \in {StubOutcome(resultFiles[path].doc)} :
            stubs' = [stubs EXCEPT ![i].state = o.state, ![i].value = o.value,
                                   ![i].got = resultFiles[path].response,
                                   ![i].done = IF o.state = "returned"
                                               THEN CompletionSerial(OwnStubs(stubs, stubs[i].execution))
                                               ELSE 0]
       /\ callFiles' = MapDelete(callFiles, path)
       /\ resultFiles' = MapDelete(resultFiles, path)
  /\ UNCHANGED <<bridge, outer, metadata, pc, retried, runs, staleFailures, vercelSandbox,
                 unreachable, toolCalls, resets, monitors, output, bridgeDriverVars, filterVars, callVars, normalizerCall, manager, executions, program>>

\* the poll loop of stub i ends: the stub throws its timeout error
StubTimesOut(i) ==
  /\ i <= Len(stubs)
  /\ stubs[i].state = "polling"
  /\ TimedOut(stubs[i].polls)
  /\ stubs' = [stubs EXCEPT ![i].state = "timedout"]
  /\ UNCHANGED <<bridge, outer, metadata, pc, retried, runs, staleFailures, vercelSandbox,
                 unreachable, toolCalls, resets, monitors, callFiles, resultFiles, output,
                 bridgeDriverVars, filterVars, callVars, normalizerCall, manager, executions, program>>

\* one turn of the poll loop of stub i
StubStep(i) == StubMisses(i) \/ StubConsumes(i) \/ StubTimesOut(i)

\* whether a run can fail with errorMsg now
CanFailWith(errorMsg) ==
  IsStaleSession(errorMsg) /\ ~retried => Len(stubs) <= MaxRetryCalls

\* the values the program body can return
ProgramReturns == {Undef, Str("done")}

\* the program ends, its calls settled, and writes the output document
ProgramFinishes(success, error, result) ==
  /\ pc = "node"
  /\ program = "running"
  /\ success \/ CanFailWith(error)
  /\ \A i \in 1..Len(stubs) : stubs[i].state # "polling"
  /\ output' = IF success THEN SuccessOutput(result, AllResults(OwnStubs(stubs, executions)))
                ELSE FailureOutput(error, AllResults(OwnStubs(stubs, executions)))
  /\ program' = "wrote"
  /\ UNCHANGED <<bridge, outer, metadata, pc, retried, runs, staleFailures, vercelSandbox,
                 unreachable, toolCalls, resets, monitors, callFiles, resultFiles, stubs,
                 bridgeDriverVars, filterVars, callVars, normalizerCall, manager, executions>>

\* the program's process ends before the script wrote an output document
\* (the body called process.exit, or the process was killed)
ProgramExits ==
  /\ pc = "node"
  /\ program = "running"
  /\ \A i \in 1..Len(stubs) : stubs[i].state # "polling"
  /\ program' = "exited"
  /\ UNCHANGED <<bridge, outer, metadata, pc, retried, runs, staleFailures, vercelSandbox,
                 unreachable, toolCalls, resets, monitors, callFiles, resultFiles, stubs,
                 output, bridgeDriverVars, filterVars, callVars, normalizerCall, manager, executions>>

\* the node command resolves and the output says success: the monitor is
\* stopped, the output file removed, the bridge's records are merged and
\* execute returns
NodeExitsWithSuccess ==
  /\ pc = "node"
  /\ program \in {"wrote", "exited"}
  /\ output # NoOutput
  /\ output.success
  /\ output' = NoOutput
  /\ monitors' = [monitors EXCEPT ![runs].stopped = TRUE]
  /\ pc' = "returned"
  /\ thrown' = thrown
  /\ Settle("returned", MergeBridgeRecords(toolCalls, bridge.toolCallRecords))
  /\ UNCHANGED <<retried, runs, staleFailures, vercelSandbox, unreachable, callFiles,
                 resultFiles, stubs, syntaxError, bridgeDriverVars, filterVars, normalizerCall, manager,
                 executions, program>>

\* execute's catch for a run that failed with errorMsg, the monitors being mons
CatchRunFailure(errorMsg, mons) ==
  /\ staleFailures' = IF IsStaleSession(errorMsg) THEN staleFailures + 1 ELSE staleFailures
  /\ IF ShouldRetry(retried, errorMsg)
     THEN /\ vercelSandbox' = EnsureSandbox(ClearedOnRetry(vercelSandbox), runs + 1)
          /\ retried' = TRUE
          /\ runs' = runs + 1
          /\ monitors' = Append(mons, NewMonitor(vercelSandbox', executions))
          /\ output' = NoOutput
          /\ program' = "running"
          /\ UNCHANGED <<pc, outer, metadata, toolCalls, resets, bridge, thrown, failure>>
     ELSE /\ pc' = "threw"
          /\ monitors' = mons
          /\ thrown' = ExecuteFailure(errorMsg)
          /\ Settle("threw", toolCalls)
          /\ UNCHANGED <<vercelSandbox, retried, runs, output, program>>

\* the node command resolves and the output says failure: the monitor is
\* stopped and the run throws the program's error
NodeExitsWithFailure ==
  /\ pc = "node"
  /\ program \in {"wrote", "exited"}
  /\ output # NoOutput
  /\ ~output.success
  /\ CatchRunFailure(RunFailure(output).message, [monitors EXCEPT ![runs].stopped = TRUE])
  /\ UNCHANGED <<unreachable, callFiles, resultFiles, stubs, syntaxError, bridgeDriverVars,
                 filterVars, normalizerCall, manager, executions>>

\* the node command resolves and there is no output file: the monitor is
\* stopped and the run throws
NodeExitsWithoutOutput ==
  /\ pc = "node"
  /\ program = "exited"
  /\ output = NoOutput
  /\ CatchRunFailure(NoOutputProduced, [monitors EXCEPT ![runs].stopped = TRUE])
  /\ UNCHANGED <<unreachable, callFiles, resultFiles, stubs, syntaxError, bridgeDriverVars,
                 filterVars, normalizerCall, manager, executions>>

\* the node command rejects: the host has lost the worker, and the run
\* throws before its monitor is stopped
NodeRejects(errorMsg) ==
  /\ pc = "node"
  /\ CanFailWith(errorMsg)
  /\ unreachable' = unreachable \cup {vercelSandbox}
  /\ CatchRunFailure(errorMsg, monitors)
  /\ UNCHANGED <<callFiles, resultFiles, stubs, syntaxError, bridgeDriverVars, filterVars,
                 normalizerCall, manager, executions>>

\* whether the commands of monitor m still reach its worker
Reaches(m) == m \in DOMAIN monitors /\ monitors[m].sandbox \notin unreachable

\* monitor m at the top of its loop: it ends when stopped, else lists the
\* local request files
MonitorLoops(m) ==
  /\ Reaches(m)
  /\ monitors[m].phase = "top"
  /\ monitors' = IF monitors[m].stopped
                 THEN [monitors EXCEPT ![m].phase = "ended"]
                 ELSE [monitors EXCEPT ![m].phase = "local",
                                       ![m].queue = ListFiles("local", monitors[m].sandbox)]
  /\ UNCHANGED <<bridge, outer, metadata, pc, retried, runs, staleFailures, vercelSandbox,
                 unreachable, toolCalls, resets, callFiles, resultFiles, stubs, output,
                 bridgeDriverVars, filterVars, callVars, normalizerCall, manager, executions, program>>

\* the phase of a monitor after the last file of its MCP listing: it sleeps
\* and is back at the top of its loop
PhaseAfter(phase, queue) == IF phase = "mcp" /\ queue = <<>> THEN "top" ELSE phase

\* monitors after monitor m is done with the file at the head of its queue
Done(m) ==
  [monitors EXCEPT ![m].cur = NoCall,
                   ![m].queue = Tail(@),
                   ![m].phase = PhaseAfter(@, Tail(monitors[m].queue))]

\* whether processLocalToolCall gets as far as the tool for a path
Serves(path) == path \in DOMAIN callFiles /\ callFiles[path].toolName \in ToolRegistry

\* processLocalToolCall up to the await of the tool: the file is read, the
\* tool looked up, the record pushed and the tool called
MonitorTakesLocal(m) ==
  /\ Reaches(m)
  /\ monitors[m].phase = "local"
  /\ monitors[m].queue # <<>>
  /\ monitors[m].cur = NoCall
  /\ \E path \in {Head(monitors[m].queue)} :
       IF Serves(path)
       THEN \E s \in {callFiles[path].stub} :
              /\ Recorded(stubs) < MaxRecords
              /\ toolCalls' = Append(toolCalls,
                    CallRecord(callFiles[path].toolName, callFiles[path].args, FALSE, s))
              /\ stubs' = [stubs EXCEPT ![s].recorded = @ + 1, ![s].invoked = @ + 1]
              /\ monitors' = [monitors EXCEPT ![m].cur =
                    [stub |-> s, path |-> path, rec |-> Len(toolCalls) + 1, gen |-> resets]]
       ELSE /\ monitors' = Done(m)
            /\ UNCHANGED <<toolCalls, stubs>>
  /\ UNCHANGED <<bridge, outer, metadata, pc, retried, runs, staleFailures, vercelSandbox,
                 unreachable, resets, callFiles, resultFiles, output, bridgeDriverVars,
                 filterVars, callVars, normalizerCall, manager, executions, program>>

\* the result files after one is written at the path of the request in
\* service; the file is tagged with the request's stub and the write's number
Written(cur, doc) ==
  MapSet(resultFiles, cur.path,
         [doc |-> doc, response |-> [stub |-> cur.stub, n |-> stubs[cur.stub].written + 1]])

\* the local tool returns: the record gets the result and the data document
\* is written through a heredoc
LocalToolReturns(m, result) ==
  /\ Reaches(m)
  /\ monitors[m].phase = "local"
  /\ monitors[m].cur # NoCall
  /\ \E cur \in {monitors[m].cur} :
       /\ toolCalls' = WithField(toolCalls, cur, "result", result)
       /\ resultFiles' = Written(cur, DataDocument(result))
       /\ stubs' = [stubs EXCEPT ![cur.stub].written = @ + 1]
  /\ monitors' = Done(m)
  /\ UNCHANGED <<bridge, outer, metadata, pc, retried, runs, staleFailures, vercelSandbox,
                 unreachable, resets, callFiles, output, bridgeDriverVars, filterVars, callVars, normalizerCall, manager, executions, program>>

\* the local tool throws: the record gets the error and the error document
\* is written through echo
LocalToolThrows(m, message) ==
  /\ Reaches(m)
  /\ monitors[m].phase = "local"
  /\ monitors[m].cur # NoCall
  /\ \E cur \in {monitors[m].cur} :
       /\ toolCalls' = WithField(toolCalls, cur, "error", Str(message))
       /\ resultFiles' = IF EchoWrites(message) THEN Written(cur, ErrorDocument(message))
                         ELSE resultFiles
       /\ stubs' = [stubs EXCEPT
             ![cur.stub].written = IF EchoWrites(message) THEN @ + 1 ELSE @,
             ![cur.stub].threw = @ + 1]
  /\ monitors' = Done(m)
  /\ UNCHANGED <<bridge, outer, metadata, pc, retried, runs, staleFailures, vercelSandbox,
                 unreachable, resets, callFiles, output, bridgeDriverVars, filterVars, callVars, normalizerCall, manager, executions, program>>

\* monitor m is through its local listing and lists the MCP request files
MonitorListsMcp(m) ==
  /\ Reaches(m)
  /\ monitors[m].phase = "local"
  /\ monitors[m].queue = <<>>
  /\ monitors[m].cur = NoCall
  /\ \E files \in {ListFiles("mcp", monitors[m].sandbox)} :
       monitors' = [monitors EXCEPT ![m].queue = files,
                                    ![m].phase = PhaseAfter("mcp", files)]
  /\ UNCHANGED <<bridge, outer, metadata, pc, retried, runs, staleFailures, vercelSandbox,
                 unreachable, toolCalls, resets, callFiles, resultFiles, stubs, output,
                 bridgeDriverVars, filterVars, callVars, normalizerCall, manager, executions, program>>

\* processMCPToolCall after handleRequest resolved with response, the
\* records being tcs and the stubs' histories sts
AnswerMcp(m, cur, response, tcs, sts) ==
  /\ IF Truthy(response.error)
     THEN /\ toolCalls' = WithField(tcs, cur, "error", response.error)
          /\ resultFiles' = IF EchoWrites(response.error.s)
                            THEN Written(cur, ErrorDocument(response.error.s))
                            ELSE resultFiles
          /\ stubs' = [sts EXCEPT
                ![cur.stub].written = IF EchoWrites(response.error.s) THEN @ + 1 ELSE @]
     ELSE /\ toolCalls' = WithField(tcs, cur, "result", response.data)
          /\ resultFiles' = Written(cur, DataDocument(response.data))
          /\ stubs' = [sts EXCEPT ![cur.stub].written = @ + 1]
  /\ monitors' = Done(m)

\* processMCPToolCall up to the await inside handleRequest: the file is
\* read, the record pushed and the bridge asked; a call the bridge refuses
\* or fails at once is answered in the same turn
MonitorTakesMcp(m) ==
  /\ Reaches(m)
  /\ monitors[m].phase = "mcp"
  /\ monitors[m].queue # <<>>
  /\ monitors[m].cur = NoCall
  /\ \E path \in {Head(monitors[m].queue)} :
       IF path \in DOMAIN callFiles
       THEN \E s \in {callFiles[path].stub} :
              /\ Recorded(stubs) < MaxRecords
              /\ \E h \in {HandleRequestBegin(bridge,
                             [toolName |-> callFiles[path].toolName,
                              args |-> callFiles[path].args,
                              callId |-> callFiles[path].callId])},
                    cur \in {[stub |-> s, path |-> path, rec |-> Len(toolCalls) + 1,
                              gen |-> resets]},
                    tcs \in {Append(toolCalls,
                               CallRecord(callFiles[path].toolName, callFiles[path].args,
                                          TRUE, s))} :
                   /\ bridge' = h.bridge
                   /\ IF h.kind = "invoked"
                      THEN /\ toolCalls' = tcs
                           /\ stubs' = [stubs EXCEPT ![s].recorded = @ + 1,
                                                     ![s].invoked = @ + 1]
                           /\ monitors' = [monitors EXCEPT ![m].cur =
                                 [stub |-> s, path |-> path, rec |-> Len(toolCalls) + 1,
                                  gen |-> resets, pending |-> h.pending]]
                           /\ UNCHANGED resultFiles
                      ELSE AnswerMcp(m, cur, h.response, tcs,
                                     [stubs EXCEPT ![s].recorded = @ + 1])
       ELSE /\ monitors' = Done(m)
            /\ UNCHANGED <<bridge, toolCalls, stubs, resultFiles>>
  /\ UNCHANGED <<outer, metadata, pc, retried, runs, staleFailures, vercelSandbox,
                 unreachable, resets, callFiles, output, bridgeDriverVars, filterVars, callVars, normalizerCall, manager, executions, program>>

\* the bridged tool returns: handleRequest resolves with the data
McpToolReturns(m, rawResult) ==
  /\ Reaches(m)
  /\ monitors[m].phase = "mcp"
  /\ monitors[m].cur # NoCall
  /\ \E r \in {HandleRequestReturn(bridge, monitors[m].cur.pending, rawResult)} :
       /\ bridge' = r.bridge
       /\ AnswerMcp(m, monitors[m].cur, r.response, toolCalls, stubs)
  /\ UNCHANGED <<outer, metadata, pc, retried, runs, staleFailures, vercelSandbox,
                 unreachable, resets, callFiles, output, bridgeDriverVars, filterVars, callVars, normalizerCall, manager, executions, program>>

\* the bridged tool throws: handleRequest resolves with the error
McpToolThrows(m, errorMsg) ==
  /\ Reaches(m)
  /\ monitors[m].phase = "mcp"
  /\ monitors[m].cur # NoCall
  /\ \E r \in {HandleRequestThrow(bridge, monitors[m].cur.pending, errorMsg)} :
       /\ bridge' = r.bridge
       /\ AnswerMcp(m, monitors[m].cur, r.response, toolCalls,
                    [stubs EXCEPT ![monitors[m].cur.stub].threw = @ + 1])
  /\ UNCHANGED <<outer, metadata, pc, retried, runs, staleFailures, vercelSandbox,
                 unreachable, resets, callFiles, output, bridgeDriverVars, filterVars, callVars, normalizerCall, manager, executions, program>>

Next ==
  \/ \E code \in Programs : CodeExecutionCall(code)
  \/ \E code \in Programs : CodeExecutionRejected(code)
  \/ OuterTimeout
  \/ \E c \in ProgramCalled : ProgramCalls(c.kind, c.toolName)
  \/ \E i \in 1..MaxCalls : StubMisses(i)
  \/ \E i \in 1..MaxCalls : StubConsumes(i)
  \/ \E i \in 1..MaxCalls : StubTimesOut(i)
  \/ \E result \in ProgramReturns : ProgramFinishes(TRUE, "", result)
  \/ \E error \in ProgramErrors : ProgramFinishes(FALSE, error, Undef)
  \/ NodeExitsWithSuccess
  \/ NodeExitsWithFailure
  \/ \E errorMsg \in NodeErrors : NodeRejects(errorMsg)
  \/ \E m \in DOMAIN monitors : MonitorLoops(m)
  \/ \E m \in DOMAIN monitors : MonitorTakesLocal(m)
  \/ \E m \in DOMAIN monitors, result \in LocalResults : LocalToolReturns(m, result)
  \/ \E m \in DOMAIN monitors, message \in LocalErrorMessages : LocalToolThrows(m, message)
  \/ \E m \in DOMAIN monitors : MonitorListsMcp(m)
  \/ \E m \in DOMAIN monitors : MonitorTakesMcp(m)
  \/ \E m \in DOMAIN monitors, rawResult \in BridgedResults : McpToolReturns(m, rawResult)
  \/ \E m \in DOMAIN monitors, errorMsg \in McpErrorMessages : McpToolThrows(m, errorMsg)

Spec == Init /\ [][Next]_vars

\* two code_execution calls one after the other on the process-wide worker,
\* with programs that can end before they wrote their output
SharedWorkerNext ==
  \/ \E code \in Programs : CodeExecutionCall(code)
  \/ \E code \in Programs : CodeExecutionAgain(code)
  \/ OuterTimeout
  \/ ProgramCalls("local", "getUser")
  \/ \E i \in 1..MaxCalls : StubStep(i)
  \/ ProgramFinishes(TRUE, "", Undef)
  \/ ProgramFinishes(FALSE, "boom", Undef)
  \/ ProgramExits
  \/ NodeExitsWithSuccess
  \/ NodeExitsWithFailure
  \/ NodeExitsWithoutOutput
  \/ \E m \in DOMAIN monitors : MonitorLoops(m)
  \/ \E m \in DOMAIN monitors : MonitorTakesLocal(m)
  \/ \E m \in DOMAIN monitors : LocalToolReturns(m, Obj(<<Prop("id", Num(1))>>))
  \/ \E m \in DOMAIN monitors : MonitorListsMcp(m)

SharedWorkerSpec == Init /\ [][SharedWorkerNext]_vars

\* the worker's event loop runs every stub's poll loop
FairSpec == Spec /\ \A i \in 1..MaxCalls : WF_vars(StubStep(i))

\* a step the monitor takes by itself: a listing, or the reading of a request
\* up to the await of its tool
MonitorStep(m) ==
  MonitorLoops(m) \/ MonitorTakesLocal(m) \/ MonitorListsMcp(m) \/ MonitorTakesMcp(m)

\* the host's event loop runs the monitors; the tools take their time
MonitorSpec == Spec /\ \A m \in 1..2 : WF_vars(MonitorStep(m))

\* the host's event loop runs the timer of the code_execution tool
TimerSpec == Spec /\ WF_vars(OuterTimeout)

(***************************************************************************)
(* Properties.                                                             *)
(***************************************************************************)
Settled(i) == i <= Len(stubs) /\ stubs[i].state # "polling"
Consumed(i) == i <= Len(stubs) /\ stubs[i].state \in {"returned", "threw"}

\* C1: every request file a stub wrote is in the end either answered by a
\* response that the stub consumes, or given up when the stub's polling
\* timeout expires; no stub polls forever
RequestsSettle == \A i \in 1..MaxCalls : (i <= Len(stubs)) ~> Settled(i)

\* C1: one stub consumed the response to its request and another gave up
\* on its timeout
SettledBothWays ==
  \E i, j \in 1..Len(stubs) : Consumed(i) /\ stubs[i].got.stub = i /\ stubs[j].state = "timedout"

\* C2: no request file causes more than one tool invocation, more than one
\* response write or more than one tool-call record, however the monitor's
\* listings interleave with the stub's polls
OneServicePerCall ==
  \A i \in 1..Len(stubs) :
     stubs[i].invoked <= 1 /\ stubs[i].written <= 1 /\ stubs[i].recorded <= 1

\* C3: a handleRequest call that finds MAX_RETRIES or more failed calls of
\* its signature since the last success or reset is refused without the
\* tool being invoked, and the count stored for the signature is then
\* exactly MAX_RETRIES
CircuitOpensAfterMaxRetries ==
  lastHandle # NoHandle /\ lastHandle.streakBefore >= MAX_RETRIES
    => lastHandle.kind = "blocked" /\ lastHandle.countBefore = MAX_RETRIES

\* C4: an execute runs its script at most twice, the second time only as
\* the retry, and a second stale-session failure ends the execute as its
\* failure
RetryAtMostOnce ==
  /\ runs <= 2
  /\ runs = 2 => retried
  /\ staleFailures >= 2 => pc = "threw"

\* C4: the re-run failed with a stale session too and execute threw
SecondStaleFailureThrown == staleFailures = 2 /\ runs = 2 /\ pc = "threw"

\* C5: in the metadata of a code_execution call that returned, the length
\* of sandboxToolCalls equals toolCallCount, which equals
\* localToolCallCount + mcpToolCallCount
CountsAgree ==
  metadata # NoMetadata =>
    /\ Len(metadata.sandboxToolCalls) = metadata.toolCallCount
    /\ metadata.toolCallCount = metadata.localToolCallCount + metadata.mcpToolCallCount

\* C5: a call returned whose program made a local call and an MCP call
MixedCallsReturned ==
  /\ metadata # NoMetadata
  /\ metadata.localToolCallCount >= 1
  /\ metadata.mcpToolCallCount >= 1

NonNegativeAndSummed(a, b, c, d, total) ==
  a >= 0 /\ b >= 0 /\ c >= 0 /\ d >= 0 /\ a + b + c + d = total

\* C6: the four savings categories computed for the tool-call list are each
\* at least 0 and sum to the total saved, and so do the four entries of
\* tokenSavingsBreakdown against totalTokensSaved in the returned metadata
SavingsAddUp ==
  /\ \A ts \in {GetComprehensiveTokenSavings(toolCalls, BaseContextTokens)} :
        NonNegativeAndSummed(ts.intermediateResultTokens, ts.roundTripContextTokens,
                             ts.toolCallOverheadTokens, ts.llmDecisionTokens, ts.totalSaved)
  /\ metadata # NoMetadata =>
        NonNegativeAndSummed(metadata.tokenSavingsBreakdown.intermediateResults,
                             metadata.tokenSavingsBreakdown.roundTripContext,
                             metadata.tokenSavingsBreakdown.toolCallOverhead,
                             metadata.tokenSavingsBreakdown.llmDecisions,
                             metadata.totalTokensSaved)

\* C6: a call returned with savings in every category
SavingsReturned ==
  /\ metadata # NoMetadata
  /\ metadata.tokenSavingsBreakdown.intermediateResults > 0
  /\ metadata.tokenSavingsBreakdown.roundTripContext > 0
  /\ metadata.tokenSavingsBreakdown.toolCallOverhead > 0
  /\ metadata.tokenSavingsBreakdown.llmDecisions > 0

RECURSIVE IsSubsequence(_, _)
IsSubsequence(s, t) ==
  The({ IF a = <<>> THEN TRUE
        ELSE IF b = <<>> THEN FALSE
        ELSE IF a[1] = b[1] THEN IsSubsequence(Tail(a), Tail(b))
        ELSE IsSubsequence(a, Tail(b)) : a \in {s}, b \in {t} })

UserOrAssistant(ms) == SelectSeq(ms, LAMBDA msg : msg.role \in {"user", "assistant"})

\* whether every tool result a tool message carries is one of code_execution
CarriesOnlyCodeExecution(content) ==
  The({ IF c.k = "str"
        THEN ParseToolContent(c.s).ok
               => Get(ParseToolContent(c.s).v, "toolName") = Str("code_execution")
        ELSE \A i \in 1..Len(c.a) :
               Get(c.a[i], "type") = Str("tool-result")
                 => Get(c.a[i], "toolName") = Str("code_execution")
        : c \in {content} })

\* C7: the filtered history is a subsequence of the messages added, holds
\* every user and assistant message among them, and holds no tool result of
\* a tool other than code_execution, also in tool messages of several parts
FilterKeepsOnlyCodeExecution ==
  /\ IsSubsequence(messageHistory, added)
  /\ UserOrAssistant(messageHistory) = UserOrAssistant(added)
  /\ \A i \in 1..Len(messageHistory) :
        messageHistory[i].role = "tool" => CarriesOnlyCodeExecution(messageHistory[i].content)

\* C8: a stub that consumed a response consumed the one written for its own
\* request, and no response is consumed by two stubs
OwnResponseOnly ==
  \A i \in 1..Len(stubs) :
     Consumed(i) =>
       /\ stubs[i].got.stub = i
       /\ \A j \in 1..Len(stubs) : j # i /\ Consumed(j) => stubs[j].got # stubs[i].got

\* C8: two calls were pending together, one stub has consumed its response
\* and the response for the other is waiting to be read
ConsumedWhileAnotherPends ==
  \E i, j \in 1..Len(stubs) :
     /\ Consumed(i)
     /\ stubs[j].state = "polling"
     /\ FilePath(stubs[j].kind, stubs[j].callId) \in DOMAIN resultFiles

\* C9: every record of the list execute returned has isMCP set exactly when
\* its tool name begins with mcp_, whichever request path the program wrote
McpFlagMatchesName ==
  metadata # NoMetadata =>
    \A i \in 1..Len(metadata.sandboxToolCalls) :
       metadata.sandboxToolCalls[i].isMCP <=> StartsWithMcp(metadata.sandboxToolCalls[i].toolName)

\* C10: a stub whose tool threw on the host does not return a value to the
\* program, and the tool is invoked once for the call, whatever the message
ThrowReachesProgram ==
  \A i \in 1..Len(stubs) :
     stubs[i].threw > 0 => stubs[i].state # "returned" /\ stubs[i].invoked <= 1

\* whether an error object carries a value beside its message
Carries(error, value) ==
  \E field \in DOMAIN error \ {"thrown", "message"} : error[field] = value

\* C11: when execute throws for an output document that says failure and
\* holds a partial result, the error it throws carries the results of the
\* calls completed before the exception
PartialResultsSurvive ==
  /\ pc = "threw"
  /\ output # NoOutput
  /\ output.partialResult # Null
  /\ thrown = ExecuteFailure(RunFailure(output).message)
  => \/ Carries(thrown, output.partialResult)
     \/ Carries(thrown, Get(output.partialResult, "completedResults"))

\* C12: when the validator rejects the program, execute throws the syntax
\* error and does nothing more: no worker, no run of the script, no monitor,
\* no stub call, no request file and no tool-call record
RejectedProgramRunsNothing ==
  Truthy(syntaxError) =>
    /\ pc = "threw"
    /\ thrown = SyntaxFailure(syntaxError)
    /\ outer = "threw"
    /\ vercelSandbox = 0
    /\ runs = 0
    /\ monitors = <<>>
    /\ stubs = <<>>
    /\ callFiles = EmptyMap
    /\ toolCalls = <<>>

\* C12: the validator rejected the program and the call failed
ProgramRejected == Truthy(syntaxError) /\ outer = "threw" /\ failure = CallFailure(thrown)

\* C13: every code_execution call completes: it returns or it throws, at
\* the latest when its timer fires
CallCompletes == (outer = "pending") ~> (outer \in {"returned", "threw"})

\* C13: the call failed on its timer while the run was waiting for a tool
\* that has not returned
TimedOutWhileToolRuns ==
  /\ failure = CallFailure(TimeoutError)
  /\ pc = "node"
  /\ \E m \in DOMAIN monitors : monitors[m].cur # NoCall

\* C14: after the timer of the code_execution call fired, the records of
\* the tool calls observed during the call are in the sandbox's tool-call
\* list
RecordsOutliveTimeout ==
  failure = CallFailure(TimeoutError) => Len(toolCalls) >= Recorded(stubs)

\* the tool of request i has been called and its response is not yet written
InService(i) ==
  \E m \in DOMAIN monitors : monitors[m].cur # NoCall /\ monitors[m].cur.stub = i

\* the request file of call j is in the worker of a running monitor
Listed(j) ==
  /\ j <= Len(stubs)
  /\ FilePath(stubs[j].kind, stubs[j].callId) \in DOMAIN callFiles
  /\ \E m \in DOMAIN monitors :
        Reaches(m) /\ ~monitors[m].stopped /\ monitors[m].sandbox = stubs[j].sandbox

Started(j) == j <= Len(stubs) /\ stubs[j].recorded > 0

\* C15: while the tool of one request runs, a second request that is
\* pending is taken up by the host as long as its monitor runs: its
\* execution starts without waiting for the first response
PendingRequestsStartTogether ==
  \A i, j \in 1..MaxCalls :
     (i # j /\ InService(i) /\ Listed(j) /\ ~Started(j)) ~> (Started(j) \/ ~Listed(j))

\* a response document of the envelope grammar: {data: value} or {error: string}
IsEnvelope(doc) ==
  /\ doc.k = "obj"
  /\ Len(doc.o) = 1
  /\ \/ doc.o[1].key = "data"
     \/ doc.o[1].key = "error" /\ doc.o[1].val.k = "str"

\* C16: every result file the host wrote holds a document that is exactly
\* {data: value} or {error: string}, also for a tool that returns undefined
ResponsesAreEnvelopes ==
  \A path \in DOMAIN resultFiles : IsEnvelope(resultFiles[path].doc)

\* C17: the response normalizer applied to its own result returns that
\* result unchanged
ResponseNormalizerIdempotent ==
  normalizerCall.fn = "transformMCPResponse"
    => TransformMCPResponse(normalizerCall.result) = normalizerCall.result

\* C18: the result of the response normalizer has an items field that is a
\* sequence, a success field that is a boolean and a _raw field that holds
\* the input
NormalizedResponseShape ==
  normalizerCall.fn = "transformMCPResponse" =>
    /\ Get(normalizerCall.result, "items").k = "arr"
    /\ Get(normalizerCall.result, "success").k = "bool"
    /\ Get(normalizerCall.result, "_raw") = normalizerCall.rawResponse

HasType(value, type) ==
  CASE type = "array" -> value.k = "arr"
    [] type = "object" -> value.k = "obj"
    [] type = "string" -> value.k = "str"
    [] type = "number" -> value.k = "num"
    [] type = "boolean" -> value.k = "bool"
    [] OTHER -> TRUE

\* whether a warning of the normalizer names a property
WarningNames(warning, key) ==
  \/ warning \in {"Missing required field: " \o key,
                  "Wrapped " \o key \o " items as objects using schema"}
  \/ \E t \in {"array", "string", "number", "boolean"} :
        warning = "Coerced " \o key \o " to " \o t
  \/ \E t \in {"string", "number", "boolean", "undefined"} :
        warning = "Expected object for " \o key \o ", got " \o t

\* C20: after normalization every declared property is present if required
\* and of its declared type if present, or a warning names it
NormalizedOrWarned ==
  normalizerCall.fn = "normalizeParameters" /\ normalizerCall.schema.has =>
    \A i \in 1..Len(normalizerCall.schema.properties) :
       \E prop \in {normalizerCall.schema.properties[i]} :
         \E value \in {Get(normalizerCall.result.normalized, prop.key)} :
            \/ value.k = "undef" /\ prop.key \notin normalizerCall.schema.required
            \/ value.k # "undef" /\ HasType(value, prop.type)
            \/ \E w \in 1..Len(normalizerCall.result.warnings) :
                  WarningNames(normalizerCall.result.warnings[w], prop.key)

\* C21: when the tool-call list has at most one record, the four savings
\* categories and the total saved are 0 and the breakdown is
\* "No savings (single tool call)", in the computed savings and in the
\* metadata of a call that returned
SingleCallSavesNothing ==
  /\ Len(toolCalls) <= 1 =>
        \A ts \in {GetComprehensiveTokenSavings(toolCalls, BaseContextTokens)} :
           /\ ts.intermediateResultTokens = 0 /\ ts.roundTripContextTokens = 0
           /\ ts.toolCallOverheadTokens = 0 /\ ts.llmDecisionTokens = 0
           /\ ts.totalSaved = 0
           /\ ts.breakdown = "No savings (single tool call)"
  /\ metadata # NoMetadata /\ metadata.toolCallCount <= 1 =>
        /\ metadata.totalTokensSaved = 0
        /\ metadata.intermediateTokensSaved = 0
        /\ metadata.tokenSavingsBreakdown
             = [intermediateResults |-> 0, roundTripContext |-> 0,
                toolCallOverhead |-> 0, llmDecisions |-> 0]

\* C21: a call returned whose single record holds a result of positive size
SingleResultReturned ==
  /\ metadata # NoMetadata
  /\ metadata.toolCallCount = 1
  /\ Truthy(metadata.sandboxToolCalls[1].result)
  /\ TokensOf(metadata.sandboxToolCalls[1].result) > 0

\* C22: a handleRequest call refused with the circuit-open error found a
\* stored failure count of at least MAX_RETRIES for its signature, and a
\* call whose signature has fewer than MAX_RETRIES failed calls since its
\* last success or the last reset is not refused
CircuitOpenOnlyAfterMaxRetries ==
  lastHandle # NoHandle =>
    /\ lastHandle.kind = "blocked" => lastHandle.countBefore >= MAX_RETRIES
    /\ lastHandle.streakBefore < MAX_RETRIES => lastHandle.kind # "blocked"

\* C23: when execute has returned or thrown every monitor it started has
\* been stopped, and at no time is more than one of its monitors not
\* stopped
MonitorsStoppedAtEnd ==
  /\ pc \in {"returned", "threw"} => \A m \in DOMAIN monitors : monitors[m].stopped
  /\ Cardinality({m \in DOMAIN monitors : ~monitors[m].stopped}) <= 1

\* C24: once the timer of the code_execution call has expired, no step
\* takes a request file into service, invokes a tool or writes a response
QuietAfterTimeout ==
  [][failure = CallFailure(TimeoutError) =>
       /\ \A m \in DOMAIN monitors : monitors[m].cur = NoCall => monitors'[m].cur = NoCall
       /\ \A i \in 1..Len(stubs) :
             stubs'[i].invoked = stubs[i].invoked /\ stubs'[i].written = stubs[i].written]_vars

\* whether monitor m is about to process a local request that names a tool
\* absent from the registry
AtUnknownLocalTool(m) ==
  /\ monitors[m].phase = "local"
  /\ monitors[m].queue # <<>>
  /\ monitors[m].cur = NoCall
  /\ Head(monitors[m].queue) \in DOMAIN callFiles
  /\ callFiles[Head(monitors[m].queue)].toolName \notin ToolRegistry

\* C25: when the monitor has processed a local request that names a tool
\* absent from the registry, the result file of that request exists and
\* holds an error
UnknownLocalToolAnswered ==
  [][\A m \in DOMAIN monitors :
       AtUnknownLocalTool(m) /\ monitors'[m].queue = Tail(monitors[m].queue)
         => /\ Head(monitors[m].queue) \in DOMAIN resultFiles'
            /\ Truthy(Get(resultFiles'[Head(monitors[m].queue)].doc, "error"))]_vars

\* the size attributed to a record: the token estimate of its result when
\* it has one, 50 when it has none
SizeOf(record) == IF Truthy(record.result) THEN TokensOf(record.result) ELSE 50

\* the sum of the sizes of the first n records
RECURSIVE SizesUpTo(_, _)
SizesUpTo(records, n) ==
  IF n = 0 THEN 0 ELSE The({ SizeOf(records[n]) + rest : rest \in {SizesUpTo(records, n - 1)} })

\* the round-trip context tokens of a list: for each call after the first,
\* the base context and the sizes of the records before it
RECURSIVE RoundTripByIndex(_, _)
RoundTripByIndex(records, i) ==
  IF i = 0 THEN 0
  ELSE The({ BaseContextTokens + SizesUpTo(records, i) + rest
             : rest \in {RoundTripByIndex(records, i - 1)} })

\* C26: for a tool-call list of two records or more, some of which may lack
\* a result, the round-trip context tokens are the sum, over the calls
\* after the first, of the base context and the sizes of the records before
\* that call, a record without a result counting 50 at its own index
RoundTripByCallIndex ==
  /\ Len(toolCalls) >= 2 =>
        GetComprehensiveTokenSavings(toolCalls, BaseContextTokens).roundTripContextTokens
          = RoundTripByIndex(toolCalls, Len(toolCalls) - 1)
  /\ metadata # NoMetadata /\ metadata.toolCallCount >= 2 =>
        metadata.tokenSavingsBreakdown.roundTripContext
          = RoundTripByIndex(metadata.sandboxToolCalls, metadata.toolCallCount - 1)

\* the record that wraps a primitive argument for a tool name
WrappedFor(toolName, v) ==
  IF Includes(toolName, "scrape") \/ Includes(toolName, "crawl") THEN Obj(<<Prop("url", v)>>)
  ELSE IF Includes(toolName, "search") THEN Obj(<<Prop("query", v)>>)
  ELSE IF Includes(toolName, "extract") THEN Obj(<<Prop("urls", Arr(<<v>>))>>)
  ELSE Obj(<<Prop("input", v)>>)

\* C27: for a string, number or boolean argument the parameter normalizer
\* returns the record that wraps it under the key its tool name selects,
\* with a warning
PrimitivesWrapped ==
  /\ normalizerCall.fn = "normalizeParameters"
  /\ normalizerCall.args.k \in {"str", "num", "bool"}
  /\ ~normalizerCall.schema.has
  => /\ normalizerCall.result.normalized
          = WrappedFor(normalizerCall.toolName, normalizerCall.args)
     /\ Len(normalizerCall.result.warnings) > 0

CountsChangeForOwnSignature ==
  [][\A c \in BridgeCallers :
       /\ (\E rawResult \in McpRawResults : ToolExecuteReturns(c, rawResult))
            => bridge'.failedCallSignatures
                 = MapDelete(bridge.failedCallSignatures, inflight[c].callSignature)
       /\ (\E errorMsg \in McpErrorMessages : ToolExecuteThrows(c, errorMsg))
            => bridge'.failedCallSignatures
                 = MapSet(bridge.failedCallSignatures, inflight[c].callSignature,
                          MapGet(bridge.failedCallSignatures,
                                 inflight[c].callSignature, 0) + 1)]_vars

\* the measure of detail of a learned schema: the property count of an
\* object schema, the sampled length of an array schema
Detail(schema) ==
  IF schema.type = "object" THEN Len(schema.properties)
  ELSE IF schema.type = "array" THEN schema.length
  ELSE 0

\* whether a response is one with success=false or an error
IsErrorResponse(response) ==
  Get(response, "success") = Bool(FALSE) \/ Truthy(Get(response, "error"))

\* C30: a tool's learned output schema stays, once learned, or is replaced
\* by one of the same type with more properties or a larger sampled
\* length, and a response with success=false or an error changes no
\* learned schema
LearnedSchemaOnlyGrows ==
  [][/\ \A t \in DOMAIN bridge.learnedOutputSchemas :
          /\ t \in DOMAIN bridge'.learnedOutputSchemas
          /\ \/ bridge'.learnedOutputSchemas[t] = bridge.learnedOutputSchemas[t]
             \/ /\ bridge'.learnedOutputSchemas[t].type = bridge.learnedOutputSchemas[t].type
                /\ Detail(bridge'.learnedOutputSchemas[t])
                     > Detail(bridge.learnedOutputSchemas[t])
     /\ \A c \in BridgeCallers, rawResult \in McpRawResults :
          ToolExecuteReturns(c, rawResult) /\ IsErrorResponse(TransformMCPResponse(rawResult))
            => bridge'.learnedOutputSchemas = bridge.learnedOutputSchemas]_vars

\* C30: the learned schema of a tool is more detailed than the schema of
\* one of the tool's recorded successful responses
LearnedMoreThanSomeResponse ==
  \E i \in 1..Len(bridge.toolCallRecords) :
     \E record \in {bridge.toolCallRecords[i]} :
        /\ Truthy(record.result)
        /\ ~IsErrorResponse(record.result)
        /\ record.toolName \in DOMAIN bridge.learnedOutputSchemas
        /\ Detail(bridge.learnedOutputSchemas[record.toolName])
             > Detail(InferSchema(record.result, 0))

\* whether a message is a tool result of a tool other than code_execution
IsDropped(message) == message.role = "tool" /\ ~IsCodeExecution(message.content)

\* the sum of ceil(length of JSON(content) / 4) over the dropped messages
RECURSIVE DroppedTokens(_)
DroppedTokens(messages) ==
  The({ IF ms = <<>> THEN 0
        ELSE (IF IsDropped(ms[1]) THEN CeilDiv4(Len(JSONStringify(ms[1].content))) ELSE 0)
               + DroppedTokens(Tail(ms))
        : ms \in {messages} })

\* C31: the tokens-saved counter is the sum of the estimates of the tool
\* results dropped since the last reset, the history holds the user,
\* assistant and code_execution messages added since then and nothing of a
\* dropped message, and after a reset both are empty
CounterSumsDropped ==
  /\ tokensSaved = DroppedTokens(added)
  /\ messageHistory
       = SelectSeq(added, LAMBDA message :
                     message.role \in {"user", "assistant"}
                       \/ (message.role = "tool" /\ IsCodeExecution(message.content)))
  /\ added = <<>> => messageHistory = <<>> /\ tokensSaved = 0

\* C31: two tool results were dropped and a message was admitted
TwoDroppedOneAdmitted ==
  /\ Len(SelectSeq(added, IsDropped)) = 2
  /\ Len(messageHistory) = 1
  /\ tokensSaved > 0

\* C32: the run after a stale-session failure is on a worker provisioned
\* after the failure, never on the worker that reported it, and when that
\* run succeeds execute returns its output
RetryRunsOnNewWorker ==
  /\ retried =>
        /\ staleFailures >= 1
        /\ runs = 2
        /\ Len(monitors) = 2
        /\ monitors[2].sandbox = vercelSandbox
        /\ vercelSandbox # monitors[1].sandbox
  /\ retried /\ pc = "returned" =>
        /\ program = "wrote"
        /\ outer = "returned" => metadata # NoMetadata

\* C32: an execute returned after its run was retried
ReturnedAfterRetry == retried /\ pc = "returned" /\ outer = "returned"

\* C33: the result in the output document of a program that returned is
\* the value the body returned when that is defined; else, with one tracked
\* result, that result, and with several, a record with _autoGenerated
\* true, their count, the results in the order the calls completed and the
\* last of them (values as JSON writes them)
ResultSynthesized ==
  output # NoOutput /\ output.success =>
    \E tracked \in {JSONClone(Arr(AllResults(stubs))).a} :
       IF output.returned # Undef THEN output.result = JSONClone(output.returned)
       ELSE IF Len(tracked) = 0 THEN output.result = Undef
       ELSE IF Len(tracked) = 1
            THEN output.result = Get(JSONClone(Obj(<<Prop("r", AllResults(stubs)[1])>>)), "r")
       ELSE /\ Get(output.result, "_autoGenerated") = Bool(TRUE)
            /\ Get(output.result, "count") = Num(Len(tracked))
            /\ Get(output.result, "results") = Arr(tracked)
            /\ Get(output.result, "lastResult")
                 = Get(JSONClone(Obj(<<Prop("r", AllResults(stubs)[Len(tracked)])>>)), "r")

\* C33: the body returned undefined after two tracked calls, the second of
\* which completed first
SynthesizedFromTwo ==
  /\ output # NoOutput
  /\ output.success
  /\ output.returned = Undef
  /\ Len(AllResults(stubs)) = 2
  /\ stubs[2].done = 1
  /\ stubs[1].done = 2

\* C34: after a code_execution call returned whose tool calls had results,
\* getEfficiencyMetrics() gives the sum of the token estimates of those
\* results
MetricsOfLastExecution ==
  /\ outer = "returned"
  /\ \E i \in 1..Len(metadata.sandboxToolCalls) : Truthy(metadata.sandboxToolCalls[i].result)
  => GetEfficiencyMetrics(toolCalls).intermediateTokensSaved
       = SumSeq(ResultSizes(metadata.sandboxToolCalls))

\* C35: after a code_execution call ended by its timer or by a failure,
\* the monitor of the next call never services a request that the program
\* of the earlier call wrote: the request it has read, recorded and called
\* the tool for is of its own call
ServicedForOwnExecute ==
  \A m \in DOMAIN monitors :
     /\ outer = "pending"
     /\ failure # NoError
     /\ monitors[m].execution = executions
     /\ monitors[m].cur # NoCall
     => stubs[monitors[m].cur.stub].execution = executions

\* C36: an execute whose own run wrote no output document never reports
\* the error of a document that an earlier run left at the output path: it
\* throws that no output was produced
ParsedOutputIsOwn ==
  pc = "threw" /\ program = "exited" => thrown = ExecuteFailure(NoOutputProduced)

\* C37: the failure count stored for a signature equals the number of
\* failed calls with that signature since its last success or the last
\* reset, also when calls for the signature overlap
StoredCountIsFailures ==
  \A sig \in DOMAIN streak \cup DOMAIN bridge.failedCallSignatures :
     MapGet(bridge.failedCallSignatures, sig, 0) = MapGet(streak, sig, 0)

\* C38: the tools getTools() returns are the union of the tools of the
\* connected servers: a name is returned exactly when a connected server
\* has a tool of that name, and the tool returned for it is one of theirs
ToolsAreUnionOfConnected ==
  /\ DOMAIN GetTools(manager)
       = UNION {DOMAIN manager.connections[c] : c \in DOMAIN manager.connections}
  /\ \A toolName \in DOMAIN GetTools(manager) :
        \E c \in DOMAIN manager.connections :
           /\ toolName \in DOMAIN manager.connections[c]
           /\ manager.connections[c][toolName] = GetTools(manager)[toolName]

====
